---- MODULE Spec2Model ----
(***************************************************************************)
(* LimeSDR transmit test programs (KirillSymin/limesdr_tests).             *)
(*                                                                         *)
(* Several state machines share this module.                               *)
(*                                                                         *)
(*   Spec      one run of one of the transmit programs: argument parsing,  *)
(*             device discovery and open, the sequence of configuration    *)
(*             calls, the streaming loop, SIGINT, cleanup and exit.  Every *)
(*             LimeSuite call returns success or failure, chosen freely.   *)
(*                                                                         *)
(*   SpecRamp  the in-loop TX gain ramp of the ramping programs.           *)
(*                                                                         *)
(*   SpecRf, SpecArgs, SpecSamples, SpecRot, SpecSweep, SpecFifo, SpecWav, *)
(*   SpecTxtsp  function-level models of single parts of the programs,     *)
(*             each on a variable of its own (see their sections).         *)
(*                                                                         *)
(* Modelling decisions that hold throughout:                               *)
(*   - malloc/calloc succeed (the NULL branches are not modelled);         *)
(*   - a configuration step guarded by a command-line option is modelled   *)
(*     as present: skipping it leaves the same state as its success;       *)
(*   - informational getters whose result is not tested are left out;      *)
(*   - LMS_SetupStream leaves stream.handle zero when it fails and         *)
(*     non-zero when it succeeds (LimeSuite API contract);                 *)
(*   - reading the never-written stream structure (a jump to cleanup       *)
(*     before its memset) yields zero or garbage, chosen freely.           *)
(***************************************************************************)
EXTENDS Integers, Sequences, FiniteSets, TLC

\* Largest number of data buffers one run pushes (bounds the streaming loop).
MaxPushes == 2

(***************************************************************************)
(* Configuration steps.  A step is the call and what the program does      *)
(* with its result.                                                        *)
(***************************************************************************)
\* CHECK(call): a non-zero result jumps to cleanup (or cleanup_and_exit(1)).
F(c) == [call |-> c, pol |-> "fatal"]

\* if (call != 0) fprintf(stderr, "WARN ...") : the run continues.
W(c) == [call |-> c, pol |-> "warn"]

\* the call's result is not looked at.
N(c) == [call |-> c, pol |-> "ignore"]

\* memset(&txs, 0, sizeof(txs)) : the stream structure becomes all-zero.
Z == [call |-> "memset", pol |-> "zero"]

\* A cleanup that forgets the zero-buffer mute send.
CarrierCleanupWithoutMute == <<"stop", "destroy", "disable", "close">>

\* cleanup: mute send, stop, destroy (if txs.handle); disable, close (if dev).
CarrierCleanup == <<"mute", "stop", "destroy", "disable", "close">>

\* cleanup: stop, destroy (if txs.handle); close (if dev).
PlainCleanup == <<"stop", "destroy", "close">>

\* The cleanup operations inside "if (txs.handle) { ... }".
StreamOps == {"mute", "stop", "destroy"}

(***************************************************************************)
(* The programs.  Fields:                                                  *)
(*   handler   signal(SIGINT, on_sigint) is installed                      *)
(*   hasArgs   the program parses arguments or input and may return 1      *)
(*   earlyExit the return value when no device is found or LMS_Open fails  *)
(*   txsInit   the stream structure on entry: "null" zeroed, "indet" not   *)
(*   setup     the configuration calls after LMS_Open, in program order    *)
(*   loop      "flag": while (keep_running), "forever": while (1)          *)
(*   source    "synth" generated buffers, "wav" file, "fifo" named pipe    *)
(*   sendFail  on LMS_SendStream < 0: "break", "stop" (clear the flag and  *)
(*             break) or "ignore"                                          *)
(*   aux       checked call inside the loop: "pre" (retune before a        *)
(*             dwell), "post" (status after a send), "none"                *)
(*   cleanup   the cleanup operations in program order                     *)
(*   failExit  exit code after a failed checked call                       *)
(***************************************************************************)
tx_15 ==
  [name |-> "tx_15", handler |-> TRUE, hasArgs |-> FALSE, earlyExit |-> 1,
   txsInit |-> "indet",
   setup |-> <<F("Init"), F("EnableChannel"), F("SetSampleRate"),
               F("GetSampleRate"), F("SetLPFBW"), F("SetGaindB"),
               F("GetGaindB"), F("SetLOFrequency"), F("Calibrate"),
               F("SetNCOFrequency"), F("SetNCOIndex"), F("GetNCOIndex"),
               Z, F("SetupStream"), F("StartStream")>>,
   loop |-> "flag", source |-> "synth", sendFail |-> "break", aux |-> "none",
   cleanup |-> PlainCleanup, failExit |-> 0]

tx_50 ==
  [name |-> "tx_50", handler |-> TRUE, hasArgs |-> FALSE, earlyExit |-> 1,
   txsInit |-> "null",
   setup |-> <<F("Init"), F("EnableChannel"), F("EnableChannel"),
               F("SetSampleRate"), F("GetSampleRate"), F("SetLPFBW"),
               F("SetGaindB"), F("GetGaindB"), F("SetLOFrequency"),
               F("SetLOFrequency"), W("Calibrate"), W("Calibrate"),
               F("SetNCOFrequency"), F("SetNCOIndex"),
               F("SetupStream"), F("StartStream")>>,
   loop |-> "flag", source |-> "synth", sendFail |-> "break", aux |-> "none",
   cleanup |-> PlainCleanup, failExit |-> 1]

tx_50_txonly ==
  [name |-> "tx_50_txonly", handler |-> TRUE, hasArgs |-> FALSE,
   earlyExit |-> 1, txsInit |-> "null",
   setup |-> <<F("Init"), F("EnableChannel"), F("SetSampleRate"),
               F("GetSampleRate"), F("SetLPFBW"), F("SetGaindB"),
               F("GetGaindB"), F("SetLOFrequency"), W("Calibrate"),
               F("SetNCOFrequency"), F("SetNCOIndex"),
               F("SetupStream"), F("StartStream")>>,
   loop |-> "flag", source |-> "synth", sendFail |-> "break", aux |-> "none",
   cleanup |-> PlainCleanup, failExit |-> 1]

tx_carrier ==
  [name |-> "tx_carrier", handler |-> TRUE, hasArgs |-> TRUE, earlyExit |-> 1,
   txsInit |-> "indet",
   setup |-> <<F("Init"), F("Reset"), F("EnableChannel"), F("SetSampleRate"),
               F("SetLPFBW"), F("SetGaindB"), F("SetLOFrequency"),
               F("SetNCOFrequency"), F("SetNCOIndex"), F("GetNCOIndex"),
               F("Calibrate"), Z, F("SetupStream"), F("StartStream")>>,
   loop |-> "flag", source |-> "synth", sendFail |-> "break", aux |-> "none",
   cleanup |-> CarrierCleanup, failExit |-> 0]

main_c ==
  [name |-> "main_c", handler |-> FALSE, hasArgs |-> FALSE, earlyExit |-> 1,
   txsInit |-> "null",
   setup |-> <<F("Init"), F("EnableChannel"), F("SetSampleRate"),
               F("GetSampleRate"), F("SetLPFBW"), F("GetLPFBW"),
               F("SetAntenna"), F("GetAntenna"), F("SetGaindB"),
               F("GetGaindB"), F("SetLOFrequency"), F("GetLOFrequency"),
               F("Calibrate"), F("SetNCOFrequency"), F("SetNCOIndex"),
               F("GetNCOIndex"), F("GetNCOFrequency"), Z,
               F("SetupStream"), F("GetStreamStatus"), F("StartStream"),
               F("GetStreamStatus")>>,
   loop |-> "forever", source |-> "synth", sendFail |-> "break",
   aux |-> "post", cleanup |-> <<"destroy", "close">>, failExit |-> 1]

minimal_carrier ==
  [name |-> "minimal_carrier", handler |-> FALSE, hasArgs |-> FALSE,
   earlyExit |-> -1, txsInit |-> "indet",
   setup |-> <<N("Init"), N("EnableChannel"), N("SetSampleRate"),
               N("SetLOFrequency"), N("Calibrate"), Z,
               N("SetupStream"), N("StartStream")>>,
   loop |-> "forever", source |-> "synth", sendFail |-> "ignore",
   aux |-> "none", cleanup |-> PlainCleanup, failExit |-> 0]

tx_sine_nco ==
  [name |-> "tx_sine_nco", handler |-> TRUE, hasArgs |-> TRUE,
   earlyExit |-> 1, txsInit |-> "indet",
   setup |-> <<F("Init"), F("EnableChannel"), F("SetSampleRate"),
               F("SetLPFBW"), F("SetGaindB"), F("SetLOFrequency"),
               W("Calibrate"), F("SetNCOFrequency"), F("SetNCOIndex"), Z,
               F("SetupStream"), F("StartStream")>>,
   loop |-> "flag", source |-> "synth", sendFail |-> "break",
   aux |-> "none", cleanup |-> CarrierCleanup, failExit |-> 0]

ssb_tone ==
  [name |-> "ssb_tone", handler |-> TRUE, hasArgs |-> TRUE,
   earlyExit |-> 1, txsInit |-> "indet",
   setup |-> <<F("Init"), F("EnableChannel"), F("SetSampleRate"),
               F("SetLPFBW"), F("SetGaindB"), F("SetLOFrequency"),
               F("Calibrate"), Z, F("SetupStream"), F("StartStream")>>,
   loop |-> "flag", source |-> "synth", sendFail |-> "break",
   aux |-> "none", cleanup |-> CarrierCleanup, failExit |-> 0]

ssb_tone_nco ==
  [name |-> "ssb_tone_nco", handler |-> TRUE, hasArgs |-> TRUE,
   earlyExit |-> 1, txsInit |-> "indet",
   setup |-> <<F("Init"), F("Reset"), F("EnableChannel"), F("SetSampleRate"),
               F("SetLPFBW"), F("SetGaindB"), F("SetLOFrequency"),
               F("SetNCOFrequency"), F("SetNCOIndex"), F("Calibrate"), Z,
               F("SetupStream"), F("StartStream")>>,
   loop |-> "flag", source |-> "synth", sendFail |-> "break",
   aux |-> "none", cleanup |-> CarrierCleanup, failExit |-> 0]

tx_ramp ==
  [name |-> "tx_ramp", handler |-> TRUE, hasArgs |-> TRUE,
   earlyExit |-> 1, txsInit |-> "indet",
   setup |-> <<F("Init"), F("EnableChannel"), F("SetSampleRate"),
               F("SetLPFBW"), F("SetGaindB"), F("SetLOFrequency"),
               F("Calibrate"), F("SetNCOFrequency"), F("SetNCOIndex"),
               F("GetNCOIndex"), Z, F("SetupStream"), F("StartStream")>>,
   loop |-> "flag", source |-> "synth", sendFail |-> "break",
   aux |-> "none", cleanup |-> CarrierCleanup, failExit |-> 0]

lime_test ==
  [name |-> "lime_test", handler |-> TRUE, hasArgs |-> TRUE,
   earlyExit |-> 1, txsInit |-> "null",
   setup |-> <<F("Init"), F("EnableChannel"), F("SetSampleRate"),
               F("SetLPFBW"), F("SetGaindB"), F("SetLOFrequency"),
               F("set_rf"), F("SetupStream"), F("StartStream")>>,
   loop |-> "flag", source |-> "synth", sendFail |-> "break",
   aux |-> "none", cleanup |-> CarrierCleanup, failExit |-> 0]

lime_test_sweep ==
  [name |-> "lime_test_sweep", handler |-> TRUE, hasArgs |-> TRUE,
   earlyExit |-> 1, txsInit |-> "null",
   setup |-> <<F("Init"), F("EnableChannel"), F("SetSampleRate"),
               F("SetLPFBW"), F("SetGaindB"), F("SetLOFrequency"),
               F("SetupStream"), F("StartStream")>>,
   loop |-> "flag", source |-> "synth", sendFail |-> "stop",
   aux |-> "pre", cleanup |-> CarrierCleanup, failExit |-> 0]

wav_tx_txtsp ==
  [name |-> "wav_tx_txtsp", handler |-> TRUE, hasArgs |-> TRUE,
   earlyExit |-> 1, txsInit |-> "null",
   setup |-> <<F("Reset"), F("Init"), F("EnableChannel"), F("SetSampleRate"),
               F("SetLPFBW"), F("SetGaindB"), F("SetLOFrequency"),
               F("SetNCOFrequency"), F("SetNCOIndex"), F("Calibrate"),
               F("apply_manual_txtsp"), F("SetupStream"), F("StartStream")>>,
   loop |-> "flag", source |-> "wav", sendFail |-> "break",
   aux |-> "none", cleanup |-> CarrierCleanup, failExit |-> 0]

sweep_mhz ==
  [name |-> "sweep_mhz", handler |-> TRUE, hasArgs |-> FALSE,
   earlyExit |-> 1, txsInit |-> "indet",
   setup |-> <<F("Init"), F("EnableChannel"), F("SetSampleRate"),
               F("GetSampleRate"), F("SetLPFBW"), F("SetGaindB"),
               F("GetGaindB"), F("SetLOFrequency"), F("SetNCOFrequency"),
               F("SetNCOIndex"), Z, F("SetupStream"), F("StartStream")>>,
   loop |-> "flag", source |-> "synth", sendFail |-> "stop",
   aux |-> "pre", cleanup |-> PlainCleanup, failExit |-> 0]

wav_tx_cal ==
  [name |-> "wav_tx_cal", handler |-> TRUE, hasArgs |-> TRUE,
   earlyExit |-> 1, txsInit |-> "null",
   setup |-> <<F("Init"), F("Reset"), F("EnableChannel"), F("SetSampleRate"),
               F("SetLPFBW"), F("SetGaindB"), F("SetLOFrequency"),
               F("SetNCOFrequency"), F("SetNCOIndex"), F("Calibrate"),
               F("SetupStream"), F("StartStream")>>,
   loop |-> "flag", source |-> "wav", sendFail |-> "break",
   aux |-> "none", cleanup |-> CarrierCleanup, failExit |-> 0]

tx_ramp_txtsp ==
  [name |-> "tx_ramp_txtsp", handler |-> TRUE, hasArgs |-> TRUE,
   earlyExit |-> 1, txsInit |-> "indet",
   setup |-> <<F("Init"), F("Reset"), F("EnableChannel"), F("SetSampleRate"),
               F("SetLPFBW"), F("SetGaindB"), F("SetLOFrequency"),
               F("SetNCOFrequency"), F("SetNCOIndex"), W("Calibrate"),
               F("apply_manual_txtsp"), Z, F("SetupStream"),
               F("StartStream")>>,
   loop |-> "flag", source |-> "synth", sendFail |-> "break",
   aux |-> "none", cleanup |-> CarrierCleanup, failExit |-> 0]

tx_tone_args ==
  [name |-> "tx_tone_args", handler |-> TRUE, hasArgs |-> TRUE,
   earlyExit |-> 1, txsInit |-> "indet",
   setup |-> <<F("Init"), F("EnableChannel"), F("SetSampleRate"),
               F("SetLPFBW"), F("SetGaindB"), F("SetLOFrequency"),
               F("SetNCOFrequency"), F("SetNCOIndex"), F("GetNCOIndex"), Z,
               F("SetupStream"), F("StartStream")>>,
   loop |-> "flag", source |-> "synth", sendFail |-> "break",
   aux |-> "none", cleanup |-> CarrierCleanup, failExit |-> 0]

tx_tone_fixed ==
  [name |-> "tx_tone_fixed", handler |-> TRUE, hasArgs |-> FALSE,
   earlyExit |-> 1, txsInit |-> "indet",
   setup |-> <<F("Init"), F("EnableChannel"), F("SetSampleRate"),
               F("SetLPFBW"), F("SetGaindB"), F("SetLOFrequency"),
               F("SetNCOFrequency"), F("SetNCOIndex"), F("GetNCOIndex"), Z,
               F("SetupStream"), F("StartStream")>>,
   loop |-> "flag", source |-> "synth", sendFail |-> "break",
   aux |-> "none", cleanup |-> CarrierCleanup, failExit |-> 0]

tx_ssb2 ==
  [name |-> "tx_ssb2", handler |-> TRUE, hasArgs |-> TRUE,
   earlyExit |-> 1, txsInit |-> "null",
   setup |-> <<F("Init"), F("Reset"), F("EnableChannel"), F("SetSampleRate"),
               F("SetLPFBW"), F("SetGaindB"), F("SetLOFrequency"),
               F("SetNCOFrequency"), F("SetNCOIndex"), F("Calibrate"),
               F("SetupStream"), F("StartStream")>>,
   loop |-> "flag", source |-> "synth", sendFail |-> "break",
   aux |-> "none", cleanup |-> CarrierCleanup, failExit |-> 0]

tx_ssb2_rot ==
  [name |-> "tx_ssb2_rot", handler |-> TRUE, hasArgs |-> TRUE,
   earlyExit |-> 1, txsInit |-> "null",
   setup |-> <<F("Init"), F("EnableChannel"), F("SetSampleRate"),
               F("SetLPFBW"), F("SetGaindB"), F("SetLOFrequency"),
               F("SetNCOFrequency"), F("SetNCOIndex"), F("Calibrate"),
               F("SetupStream"), F("StartStream")>>,
   loop |-> "flag", source |-> "synth", sendFail |-> "break",
   aux |-> "none", cleanup |-> CarrierCleanup, failExit |-> 0]

tx_ssb2_v3 ==
  [name |-> "tx_ssb2_v3", handler |-> TRUE, hasArgs |-> TRUE,
   earlyExit |-> 1, txsInit |-> "null",
   setup |-> <<F("Init"), F("Reset"), F("EnableChannel"), F("SetSampleRate"),
               F("SetLPFBW"), F("SetGaindB"), F("SetLOFrequency"),
               F("SetNCOFrequency"), F("SetNCOIndex"), F("Calibrate"),
               F("SetupStream"), F("StartStream")>>,
   loop |-> "flag", source |-> "synth", sendFail |-> "break",
   aux |-> "none", cleanup |-> CarrierCleanup, failExit |-> 0]

tx_ssb3 ==
  [name |-> "tx_ssb3", handler |-> TRUE, hasArgs |-> TRUE,
   earlyExit |-> 1, txsInit |-> "indet",
   setup |-> <<F("Init"), F("Reset"), F("EnableChannel"), F("SetAntenna"),
               F("SetSampleRate"), F("SetLPFBW"), F("SetGaindB"),
               F("SetLOFrequency"), F("SetNCOFrequency"), F("SetNCOIndex"),
               F("Calibrate"), Z, F("SetupStream"), F("StartStream")>>,
   loop |-> "flag", source |-> "synth", sendFail |-> "break",
   aux |-> "none", cleanup |-> CarrierCleanup, failExit |-> 0]

tx_ssb5 ==
  [name |-> "tx_ssb5", handler |-> TRUE, hasArgs |-> TRUE,
   earlyExit |-> 1, txsInit |-> "null",
   setup |-> <<F("Init"), F("Reset"), F("EnableChannel"), F("SetSampleRate"),
               F("SetLPFBW"), F("SetGaindB"), F("SetLOFrequency"),
               F("force_tx_keep_dc"), F("SetNCOFrequency"), F("SetNCOIndex"),
               F("Calibrate"), N("force_tx_keep_dc"), F("SetupStream"),
               F("StartStream")>>,
   loop |-> "flag", source |-> "synth", sendFail |-> "break",
   aux |-> "none", cleanup |-> CarrierCleanup, failExit |-> 0]

tx_pipe_I16bit ==
  [name |-> "tx_pipe_I16bit", handler |-> TRUE, hasArgs |-> TRUE,
   earlyExit |-> 1, txsInit |-> "null",
   setup |-> <<F("Reset"), F("Init"), F("EnableChannel"), F("SetSampleRate"),
               F("SetLPFBW"), F("SetGaindB"), F("SetLOFrequency"),
               F("SetNCOFrequency"), F("SetNCOIndex"), F("Calibrate"),
               F("apply_manual_txtsp"), F("SetupStream"), F("StartStream"),
               F("open_fifo")>>,
   loop |-> "flag", source |-> "fifo", sendFail |-> "break",
   aux |-> "none", cleanup |-> CarrierCleanup, failExit |-> 0]

wav_tx ==
  [name |-> "wav_tx", handler |-> TRUE, hasArgs |-> TRUE,
   earlyExit |-> 1, txsInit |-> "null",
   setup |-> <<F("Init"), F("EnableChannel"), F("SetSampleRate"),
               F("SetLPFBW"), F("SetGaindB"), F("SetLOFrequency"),
               F("SetNCOFrequency"), F("SetNCOIndex"), F("SetupStream"),
               F("StartStream")>>,
   loop |-> "flag", source |-> "wav", sendFail |-> "break",
   aux |-> "none", cleanup |-> CarrierCleanup, failExit |-> 0]

\* Every program of the repository.
Programs ==
  {tx_15, tx_50, tx_50_txonly, tx_carrier, main_c, minimal_carrier,
   tx_sine_nco, ssb_tone, ssb_tone_nco, tx_ramp, lime_test, lime_test_sweep,
   wav_tx_txtsp, sweep_mhz, wav_tx_cal, tx_ramp_txtsp, tx_tone_args,
   tx_tone_fixed, tx_ssb2, tx_ssb2_rot, tx_ssb2_v3, tx_ssb3, tx_ssb5,
   tx_pipe_I16bit, wav_tx}

(***************************************************************************)
(* State of one run.                                                       *)
(***************************************************************************)
VARIABLES
  program,       \* name of the program being run
  pc,            \* where main is: "start", "open", "setup", "loop", "retune",
                 \* "read", "send", "sendlast", "tail", "status", "cleanup",
                 \* "done" (exited) or "killed" (ended by the signal)
  step,          \* index into the setup or the cleanup sequence
  keep_running,  \* the flag on_sigint clears (g_run in lime_test)
  handle,        \* txs.handle: "indet" never written, "null" zero,
                 \* "set" a stream, "garbage" non-zero but no stream
  dev,           \* the device pointer is non-NULL (LMS_Open succeeded)
  started,       \* LMS_StartStream succeeded
  trace,         \* stream and teardown calls made so far, with their results
  cause,         \* why the run left the normal path ("none" while on it)
  exitCode,      \* <<>> while running, <<c>> once the process exited with c
  pushes,        \* data buffers pushed so far
  afterFlag      \* data buffers pushed after the flag was cleared

lifeVars ==
  <<program, pc, step, keep_running, handle, dev, started, trace, cause,
    exitCode, pushes, afterFlag>>

\* State of the gain ramp (see the ramp section below).
VARIABLES
  cfg,             \* [start, target, ramp_ms, interval]: TX_GAIN_START,
                   \* TX_GAIN_DB, RAMP_MS, RAMP_INTERVAL_MS after clamping
  rpc,             \* "send" top of the loop, "tick" inner while test,
                   \* "check" after t_next += interval, "done", "off"
  t0,              \* now_ms() before the loop
  now,             \* the last value read from now_ms()
  t_next,          \* time of the next ramp tick
  k,               \* ticks accumulated into g_accum
  g_last_applied,  \* the program's record of the gain it applied
  devGain,         \* the gain the device holds (last successful set)
  gainSets,        \* LMS_SetGaindB calls made by the ramp
  setFails,        \* how many of them failed
  setArg,          \* the gain the latest of these calls carried (-1: none)
  iterTicks        \* passes of the inner while in this loop iteration

rampVars ==
  <<cfg, rpc, t0, now, t_next, k, g_last_applied, devGain, gainSets,
    setFails, setArg, iterTicks>>

\* State of the function-level models (see their sections below); each is
\* a record whose pc is "off" while another part of the model runs.
VARIABLES
  rf,              \* one call of set_rf (lime_test)
  av,              \* a program from its command line to its first push
  sb               \* the filling of one sample buffer

VARIABLES
  rot,             \* the rotator of the rotating-tone generator (tx_ssb2)
  sw,              \* the sweep loop of lime_test
  ff,              \* the FIFO reader of tx_pipe_I16bit
  wv,              \* the WAV player
  rg               \* the TXTSP registers under apply_manual_txtsp

partVars == <<rot, sw, ff, wv, rg>>

calcVars == <<rf, av, sb, partVars>>

vars == <<lifeVars, rampVars, calcVars>>

\* The record of the running program.
Prog == CHOOSE p \in Programs : p.name = program

\* The programs whose cleanup is tx_carrier's.
SharesCarrierCleanup(p) == p.cleanup = CarrierCleanup

\* The operations of a trace, without their results.
Ops(t) == [i \in 1..Len(t) |-> t[i].op]

\* The teardown part of a trace: everything that is not a loop push.
Teardown(t) == Ops(SelectSeq(t, LAMBDA e : e.op \notin {"push", "tail"}))

\* How often operation o occurs in a trace.
Count(t, o) == Cardinality({i \in 1..Len(t) : t[i].op = o})

\* "if (txs.handle)" on a structure never written reads zero or garbage.
ReadHandle(h) == IF h = "indet" THEN {"null", "garbage"} ELSE {h}

\* The exit status for each way of leaving main.
ExitCodeOf(p, c) ==
  CASE c \in {"args"}          -> 1
    [] c \in {"nodev", "open"} -> p.earlyExit
    [] c \in {"setup", "aux"}  -> p.failExit
    [] OTHER                   -> 0

LifeInit ==
  /\ program \in {p.name : p \in Programs}
  /\ pc = "start"
  /\ step = 1
  /\ keep_running = TRUE
  /\ handle = Prog.txsInit
  /\ dev = FALSE
  /\ started = FALSE
  /\ trace = <<>>
  /\ cause = "none"
  /\ exitCode = <<>>
  /\ pushes = 0
  /\ afterFlag = 0

\* return c from main before any device is open.
ReturnEarly(c) ==
  /\ pc' = "done"
  /\ cause' = c
  /\ exitCode' = <<ExitCodeOf(Prog, c)>>
  /\ UNCHANGED <<program, step, keep_running, handle, dev, started, trace,
                 pushes, afterFlag>>

\* goto cleanup / cleanup_and_exit: the first thing cleanup does is read
\* txs.handle.
GotoCleanup(c, h) ==
  /\ pc' = "cleanup"
  /\ step' = 1
  /\ cause' = c
  /\ handle' = h

\* Argument or input parsing rejects the command line: return 1.
ArgReject ==
  /\ pc = "start"
  /\ Prog.hasArgs
  /\ ReturnEarly("args")
  /\ UNCHANGED <<rampVars, calcVars>>

\* LMS_GetDeviceList: n < 1 returns early.
GetDeviceList(found) ==
  /\ pc = "start"
  /\ IF found
       THEN /\ pc' = "open"
            /\ UNCHANGED <<program, step, keep_running, handle, dev, started,
                           trace, cause, exitCode, pushes, afterFlag>>
       ELSE ReturnEarly("nodev")
  /\ UNCHANGED <<rampVars, calcVars>>

\* LMS_Open: failure returns early (nothing to clean up).
Open(ok) ==
  /\ pc = "open"
  /\ IF ok
       THEN /\ pc' = "setup"
            /\ dev' = TRUE
            /\ UNCHANGED <<program, step, keep_running, handle, started,
                           trace, cause, exitCode, pushes, afterFlag>>
       ELSE ReturnEarly("open")
  /\ UNCHANGED <<rampVars, calcVars>>

\* One configuration step with result ok.
SetupStep(ok) ==
  /\ pc = "setup"
  /\ LET s == Prog.setup[step]
         last == step = Len(Prog.setup)
     IN  IF s.pol = "zero"
           THEN /\ ok
                /\ handle' = "null"
                /\ step' = step + 1
                /\ pc' = IF last THEN "loop" ELSE "setup"
                /\ UNCHANGED <<started, cause>>
         ELSE IF ok \/ s.pol \in {"warn", "ignore"}
           THEN /\ handle' = IF s.call = "SetupStream"
                               THEN (IF ok THEN "set" ELSE "null")
                               ELSE handle
                /\ started' = IF s.call = "StartStream" THEN ok ELSE started
                /\ step' = step + 1
                /\ pc' = IF last THEN "loop" ELSE "setup"
                /\ UNCHANGED cause
         ELSE /\ \E h \in ReadHandle(IF s.call = "SetupStream"
                                        THEN "null" ELSE handle) :
                   GotoCleanup("setup", h)
              /\ UNCHANGED started
  /\ UNCHANGED <<program, keep_running, dev, trace, exitCode, pushes,
                 afterFlag>>
  /\ UNCHANGED <<rampVars, calcVars>>

\* A loop that never looks at the flag.
LoopNeverPolls == TRUE

\* The loop condition: while (keep_running) polls the flag, while (1) does
\* not.
LoopContinues == Prog.loop = "forever" \/ keep_running

\* What an iteration does first.
IterationStarts ==
  (IF Prog.source = "synth" THEN {"send"} ELSE {"read"})
    \cup (IF Prog.aux = "pre" THEN {"retune"} ELSE {})

\* The top of the streaming loop.
LoopTest ==
  /\ pc = "loop"
  /\ IF LoopContinues
       THEN /\ pushes < MaxPushes
            /\ pc' \in IterationStarts
            /\ UNCHANGED <<step, handle, cause>>
       ELSE \E h \in ReadHandle(handle) : GotoCleanup("sigint", h)
  /\ UNCHANGED <<program, keep_running, dev, started, trace, exitCode,
                 pushes, afterFlag>>
  /\ UNCHANGED <<rampVars, calcVars>>

\* Retune at the start of a sweep dwell (set_rf, CHECK(LMS_SetNCO...)).
Retune(ok) ==
  /\ pc = "retune"
  /\ IF ok
       THEN /\ pc' = "loop"
            /\ UNCHANGED <<step, handle, cause>>
       ELSE \E h \in ReadHandle(handle) : GotoCleanup("aux", h)
  /\ UNCHANGED <<program, keep_running, dev, started, trace, exitCode,
                 pushes, afterFlag>>
  /\ UNCHANGED <<rampVars, calcVars>>

\* What fread / read can deliver.
ReadResults ==
  IF Prog.source = "wav"
    THEN {"full", "short", "none", "rewind", "end"}
    ELSE {"full", "eintr", "eof", "error"}

\* fread from the WAV file or read from the FIFO.
\*   full   a whole chunk           short  a last, partial chunk (WAV)
\*   none   nothing left (WAV)      rewind nothing left, looping (WAV)
\*   end    bytes_left == 0 (WAV)   eintr / eof / error (FIFO)
Read(r) ==
  /\ pc = "read"
  /\ r \in ReadResults
  /\ IF r \in {"end", "eof", "error"}
       THEN \E h \in ReadHandle(handle) : GotoCleanup("eof", h)
       ELSE /\ pc' = CASE r = "full"  -> "send"
                       [] r = "short" -> "sendlast"
                       [] r = "none"  -> "tail"
                       [] OTHER       -> "loop"
            /\ UNCHANGED <<step, handle, cause>>
  /\ UNCHANGED <<program, keep_running, dev, started, trace, exitCode,
                 pushes, afterFlag>>
  /\ UNCHANGED <<rampVars, calcVars>>

\* Where the loop goes after a data push that succeeded.
AfterPush ==
  IF pc = "sendlast" THEN "tail"
  ELSE IF Prog.aux = "post" THEN "status" ELSE "loop"

\* LMS_SendStream of a data buffer, with result ok (FALSE: it returned < 0).
SendData(ok) ==
  /\ pc \in {"send", "sendlast"}
  /\ trace' = Append(trace, [op |-> "push", ok |-> ok])
  /\ pushes' = pushes + 1
  /\ afterFlag' = IF keep_running THEN afterFlag ELSE afterFlag + 1
  /\ IF ok \/ Prog.sendFail = "ignore"
       THEN /\ pc' = IF ok THEN AfterPush ELSE "loop"
            /\ UNCHANGED <<step, handle, cause, keep_running>>
       ELSE /\ \E h \in ReadHandle(handle) : GotoCleanup("send", h)
            /\ keep_running' = IF Prog.sendFail = "stop"
                                 THEN FALSE ELSE keep_running
  /\ UNCHANGED <<program, dev, started, exitCode>>
  /\ UNCHANGED <<rampVars, calcVars>>

\* The WAV players' zero-padded final chunk, then break.
TailPush(ok) ==
  /\ pc = "tail"
  /\ trace' = Append(trace, [op |-> "tail", ok |-> ok])
  /\ \E h \in ReadHandle(handle) : GotoCleanup("eof", h)
  /\ UNCHANGED <<program, keep_running, dev, started, exitCode, pushes,
                 afterFlag>>
  /\ UNCHANGED <<rampVars, calcVars>>

\* main.c: print_stream_status after each push, CHECK(LMS_GetStreamStatus).
Status(ok) ==
  /\ pc = "status"
  /\ IF ok
       THEN /\ pc' = "loop"
            /\ UNCHANGED <<step, handle, cause>>
       ELSE \E h \in ReadHandle(handle) : GotoCleanup("aux", h)
  /\ UNCHANGED <<program, keep_running, dev, started, trace, exitCode,
                 pushes, afterFlag>>
  /\ UNCHANGED <<rampVars, calcVars>>

\* on_sigint: the handler clears the flag and does nothing else.
OnSigint ==
  /\ Prog.handler
  /\ pc \notin {"start", "done", "killed"}
  /\ keep_running
  /\ keep_running' = FALSE
  /\ UNCHANGED <<program, pc, step, handle, dev, started, trace, cause,
                 exitCode, pushes, afterFlag>>
  /\ UNCHANGED <<rampVars, calcVars>>

\* SIGINT with the default disposition: the process is terminated.
Killed ==
  /\ ~Prog.handler
  /\ pc \notin {"done", "killed"}
  /\ pc' = "killed"
  /\ cause' = "killed"
  /\ UNCHANGED <<program, step, keep_running, handle, dev, started, trace,
                 exitCode, pushes, afterFlag>>
  /\ UNCHANGED <<rampVars, calcVars>>

\* Whether cleanup operation o runs: the stream operations are inside
\* "if (txs.handle)", the device operations inside "if (dev)".
Runs(o) == IF o \in StreamOps THEN handle \in {"set", "garbage"} ELSE dev

\* The cleanup step that follows step i, whose call returned ok.
AfterCleanupStepStopsOnFailure(i, ok) ==
  IF ok THEN i + 1 ELSE Len(Prog.cleanup) + 1

\* Cleanup ignores every result: the next statement runs.
AfterCleanupStep(i, ok) == i + 1

\* One cleanup operation (its result is ignored), or its skipped branch.
CleanupStep(ok) ==
  /\ pc = "cleanup"
  /\ step <= Len(Prog.cleanup)
  /\ LET o == Prog.cleanup[step]
     IN  IF Runs(o)
           THEN /\ trace' = Append(trace, [op |-> o, ok |-> ok])
                /\ step' = AfterCleanupStep(step, ok)
           ELSE /\ ok
                /\ step' = step + 1
                /\ UNCHANGED trace
  /\ UNCHANGED <<program, pc, keep_running, handle, dev, started, cause,
                 exitCode, pushes, afterFlag>>
  /\ UNCHANGED <<rampVars, calcVars>>

\* return 0 after the cleanup label, or exit(code) in cleanup_and_exit.
Exit ==
  /\ pc = "cleanup"
  /\ step > Len(Prog.cleanup)
  /\ pc' = "done"
  /\ exitCode' = <<ExitCodeOf(Prog, cause)>>
  /\ UNCHANGED <<program, step, keep_running, handle, dev, started, trace,
                 cause, pushes, afterFlag>>
  /\ UNCHANGED <<rampVars, calcVars>>

LifeNext ==
  \/ ArgReject
  \/ \E found \in BOOLEAN : GetDeviceList(found)
  \/ \E ok \in BOOLEAN : Open(ok)
  \/ \E ok \in BOOLEAN : SetupStep(ok)
  \/ LoopTest
  \/ \E ok \in BOOLEAN : Retune(ok)
  \/ \E r \in {"full", "short", "none", "rewind", "end", "eintr", "eof",
               "error"} : Read(r)
  \/ \E ok \in BOOLEAN : SendData(ok)
  \/ \E ok \in BOOLEAN : TailPush(ok)
  \/ \E ok \in BOOLEAN : Status(ok)
  \/ OnSigint
  \/ Killed
  \/ \E ok \in BOOLEAN : CleanupStep(ok)
  \/ Exit

(***************************************************************************)
(* The gain ramp of the ramping programs (tx_sine_nco and its copies).      *)
(*                                                                         *)
(* g_accum is a double that starts at TX_GAIN_START and grows by           *)
(* step_db_f = total_delta / steps per tick; the model keeps the tick      *)
(* count k and computes with the exact value                               *)
(* (TX_GAIN_START * steps + k * total_delta) / steps.  For the             *)
(* configurations below no tick lands on a half, so llround of the double  *)
(* and of the exact value agree.                                           *)
(***************************************************************************)
\* Largest clock advance (ms) past RAMP_MS the model follows.
Slack == 120

\* Largest number of LMS_SetGaindB calls that fail in one run.
MaxSetFails == 2

TX_GAIN_MIN_DB == 0

TX_GAIN_MAX_DB == 73

\* Stands for UINT64_MAX: beyond every clock reading; nothing is added to it.
UINT64_MAX == 2147483647

\* What a blocking send can add to the clock (ms), and what one pass of the
\* inner loop can.
SendTimes == {10, 30, 70}

TickTimes == {0, 10}

\* First readings of the monotonic clock.
StartTimes == {0, 5}

\* The ramp of the claims: 0 dB to 40 dB in 2000 ms, a tick every 20 ms.
DefaultRamp == [start |-> 0, target |-> 40, ramp_ms |-> 2000, interval |-> 20]

\* Command lines the model runs: rising and falling, coarse and fine steps,
\* next to both ends of the gain range, and no ramp at all.
RampConfigs ==
  {DefaultRamp,
   [start |-> 0,  target |-> 40, ramp_ms |-> 100, interval |-> 20],
   [start |-> 40, target |-> 0,  ramp_ms |-> 100, interval |-> 20],
   [start |-> 0,  target |-> 10, ramp_ms |-> 50,  interval |-> 20],
   [start |-> 70, target |-> 73, ramp_ms |-> 100, interval |-> 20],
   [start |-> 3,  target |-> 0,  ramp_ms |-> 100, interval |-> 20],
   [start |-> 0,  target |-> 40, ramp_ms |-> 0,   interval |-> 20]}

clampi(v, lo, hi) == IF v < lo THEN lo ELSE IF v > hi THEN hi ELSE v

use_ramp(c) == c.ramp_ms > 0 /\ c.target # c.start

total_delta(c) == c.target - c.start

steps(c) ==
  IF use_ramp(c) THEN (c.ramp_ms + c.interval - 1) \div c.interval ELSE 1

\* llround(n / d) for d > 0: to nearest, halves away from zero.
llround(n, d) ==
  IF n >= 0 THEN (2 * n + d) \div (2 * d)
            ELSE -((2 * (-n) + d) \div (2 * d))

\* clampi((int)llround(g_accum), TX_GAIN_MIN_DB, TX_GAIN_MAX_DB) after j ticks.
g_int(c, j) ==
  clampi(llround(c.start * steps(c) + j * total_delta(c), steps(c)),
         TX_GAIN_MIN_DB, TX_GAIN_MAX_DB)

\* A completion test that misses equality.
ReachedStrictly(c, g) ==
  \/ total_delta(c) >= 0 /\ g > c.target
  \/ total_delta(c) < 0 /\ g < c.target

\* (step_db_f >= 0 && g_last_applied >= TX_GAIN_DB) ||
\* (step_db_f <  0 && g_last_applied <= TX_GAIN_DB)
Reached(c, g) ==
  \/ total_delta(c) >= 0 /\ g >= c.target
  \/ total_delta(c) < 0 /\ g <= c.target

RampInit ==
  /\ cfg \in RampConfigs
  /\ rpc = "send"
  /\ t0 \in StartTimes
  /\ now = t0
  /\ t_next = IF use_ramp(cfg) THEN t0 + cfg.interval ELSE UINT64_MAX
  /\ k = 0
  /\ g_last_applied = cfg.start
  /\ devGain = cfg.start
  /\ gainSets = 0
  /\ setFails = 0
  /\ setArg = -1
  /\ iterTicks = 0

\* The ramp variables while the model follows a whole run instead.
RampOff ==
  /\ cfg = DefaultRamp
  /\ rpc = "off"
  /\ t0 = 0
  /\ now = 0
  /\ t_next = UINT64_MAX
  /\ k = 0
  /\ g_last_applied = 0
  /\ devGain = 0
  /\ gainSets = 0
  /\ setFails = 0
  /\ setArg = -1
  /\ iterTicks = 0

\* The run variables while the model follows the ramp: tx_sine_nco inside
\* its streaming loop.
LifeStreaming ==
  /\ program = "tx_sine_nco"
  /\ pc = "send"
  /\ step = Len(Prog.setup) + 1
  /\ keep_running = TRUE
  /\ handle = "set"
  /\ dev = TRUE
  /\ started = TRUE
  /\ trace = <<>>
  /\ cause = "none"
  /\ exitCode = <<>>
  /\ pushes = 0
  /\ afterFlag = 0

lifeButFlag ==
  <<program, pc, step, handle, dev, started, trace, cause, exitCode, pushes,
    afterFlag>>

\* The clock readings the model follows for configuration c.
InTime(t) == t - t0 <= cfg.ramp_ms + Slack

\* while (keep_running) { if (LMS_SendStream(...) < 0) break;
\*                        if (use_ramp) { now = now_ms(); ...
RampSend(ok, d) ==
  /\ rpc = "send"
  /\ keep_running
  /\ InTime(now + d)
  /\ IF ~ok THEN rpc' = "done" /\ now' = now
     ELSE IF use_ramp(cfg) THEN rpc' = "tick" /\ now' = now + d
     ELSE rpc' = "send" /\ now' = now + d
  /\ iterTicks' = 0
  /\ UNCHANGED <<cfg, t0, t_next, k, g_last_applied, devGain, gainSets,
                 setFails, setArg, keep_running, lifeButFlag, calcVars>>

\* The outer loop condition fails: the loop is left.
RampExit ==
  /\ rpc = "send"
  /\ ~keep_running
  /\ rpc' = "done"
  /\ UNCHANGED <<cfg, t0, now, t_next, k, g_last_applied, devGain, gainSets,
                 setFails, setArg, iterTicks, keep_running, lifeButFlag, calcVars>>

\* The inner loop condition fails: back to the top of the outer loop.
RampIdle ==
  /\ rpc = "tick"
  /\ ~(now >= t_next /\ keep_running)
  /\ rpc' = "send"
  /\ UNCHANGED <<cfg, t0, now, t_next, k, g_last_applied, devGain, gainSets,
                 setFails, setArg, iterTicks, keep_running, lifeButFlag, calcVars>>

\* A tick that writes to the device whatever the rounded value is.
TickSetsAlways(g, last) == TRUE

\* if (g_int != g_last_applied)
TickSets(g, last) == g # last

\* One tick: g_accum += step_db_f; set the gain if its rounded value
\* changed (setOk: LMS_SetGaindB returned 0); t_next += RAMP_INTERVAL_MS.
RampTick(setOk) ==
  /\ rpc = "tick"
  /\ now >= t_next /\ keep_running
  /\ k' = k + 1
  /\ iterTicks' = iterTicks + 1
  /\ LET g == g_int(cfg, k + 1)
     IN  IF TickSets(g, g_last_applied)
           THEN /\ setOk \/ setFails < MaxSetFails
                /\ gainSets' = gainSets + 1
                /\ setArg' = g
                /\ g_last_applied' = IF setOk THEN g ELSE g_last_applied
                /\ devGain' = IF setOk THEN g ELSE devGain
                /\ setFails' = IF setOk THEN setFails ELSE setFails + 1
           ELSE /\ setOk
                /\ UNCHANGED <<gainSets, g_last_applied, devGain, setFails,
                               setArg>>
  /\ t_next' = t_next + cfg.interval
  /\ rpc' = "check"
  /\ UNCHANGED <<cfg, t0, now, keep_running, lifeButFlag, calcVars>>

\* A ramp handler that processes one tick per iteration (if, not while).
AfterTickOnce == "send"

\* now = now_ms(); then the inner while tests its condition again.
AfterTick == "tick"

\* The completion test of a tick: at or past the target, snap to it (the
\* result of that LMS_SetGaindB is ignored), disable the ramp and break;
\* otherwise read the clock again.
RampCheck(setOk, d) ==
  /\ rpc = "check"
  /\ IF Reached(cfg, g_last_applied)
       THEN /\ d = 0
            /\ IF g_last_applied # cfg.target
                 THEN /\ setOk \/ setFails < MaxSetFails
                      /\ gainSets' = gainSets + 1
                      /\ setArg' = cfg.target
                      /\ devGain' = IF setOk THEN cfg.target ELSE devGain
                      /\ setFails' = IF setOk THEN setFails ELSE setFails + 1
                      /\ g_last_applied' = cfg.target
                 ELSE /\ setOk
                      /\ UNCHANGED <<gainSets, devGain, setFails,
                                     g_last_applied, setArg>>
            /\ t_next' = UINT64_MAX
            /\ rpc' = "send"
            /\ now' = now
       ELSE /\ setOk
            /\ InTime(now + d)
            /\ now' = now + d
            /\ rpc' = AfterTick
            /\ UNCHANGED <<gainSets, devGain, setFails, g_last_applied,
                           t_next, setArg>>
  /\ UNCHANGED <<cfg, t0, k, iterTicks, keep_running, lifeButFlag, calcVars>>

\* on_sigint while the ramping loop runs.
RampSigint ==
  /\ rpc \notin {"done", "off"}
  /\ keep_running
  /\ keep_running' = FALSE
  /\ UNCHANGED <<rampVars, lifeButFlag, calcVars>>

RampNext ==
  \/ \E ok \in BOOLEAN, d \in SendTimes : RampSend(ok, d)
  \/ RampExit
  \/ RampIdle
  \/ \E setOk \in BOOLEAN : RampTick(setOk)
  \/ \E setOk \in BOOLEAN, d \in TickTimes : RampCheck(setOk, d)
  \/ RampSigint

(***************************************************************************)
(* Function-level models.  Each follows one part of a program on its own   *)
(* variable; the other variables rest at their "off" value.                *)
(***************************************************************************)
\* The run variables while a function-level model of program p runs.
LifeOff(p) ==
  /\ program = p
  /\ pc = "off"
  /\ step = 1
  /\ keep_running = TRUE
  /\ handle = "null"
  /\ dev = FALSE
  /\ started = FALSE
  /\ trace = <<>>
  /\ cause = "none"
  /\ exitCode = <<>>
  /\ pushes = 0
  /\ afterFlag = 0

RfOff == [pc |-> "off"]

AvOff == [pc |-> "off"]

SbOff == [pc |-> "off"]

PartsOff ==
  /\ rot = [pc |-> "off"]
  /\ sw = [pc |-> "off"]
  /\ ff = [pc |-> "off"]
  /\ wv = [pc |-> "off"]
  /\ rg = [pc |-> "off"]

CalcOff == rf = RfOff /\ av = AvOff /\ sb = SbOff /\ PartsOff

(***************************************************************************)
(* set_rf of lime_test: program the NCO so that the RF is LO_HZ - NCO.     *)
(* Frequencies are whole hertz, which doubles hold exactly.                *)
(***************************************************************************)
LO_HZ == 30000000

\* What LMS_GetSampleRate left in rf_sr: HOST_SR_HZ * OVERSAMPLE, another
\* rate, or the initial 0 when the call failed.
RfRates == {40000000, 20000000, 0}

\* RF targets (--rf, or a sweep point): inside the range, on its edges, one
\* hertz either side of them, and far outside.
RfTargets ==
  {0, 5000000, 9999999, 10000000, 10000001, 10000002, 15000000, 20000001,
   29999999, 30000000, 30000001, 39999999, 45000000, 49999998, 49999999,
   50000000, 50000001, 55000000}

fabs(x) == IF x < 0 THEN -x ELSE x

\* The range test without the guard.
OutOfNcoRangeNoGuard(nco, rf_sr) == 2 * fabs(nco) > rf_sr

\* nco_max = rf_sr/2.0 - 1.0;  if (fabs(nco) > nco_max)
OutOfNcoRange(nco, rf_sr) == 2 * fabs(nco) > rf_sr - 2

\* A direction flag that is always set.
downconvertAlways(nco) == TRUE

\* bool downconvert = (nco >= 0);
downconvert(nco) == nco >= 0

\* The effective RF the programs report:
\* NCO_DOWNCONVERT ? (LO_HZ - NCO_FREQ_HZ) : (LO_HZ + NCO_FREQ_HZ)
rf_hz(lo, nco_freq, down) == IF down THEN lo - nco_freq ELSE lo + nco_freq

\* set_rf is entered with the rate and the target; no device call yet.
RfInit ==
  /\ LifeOff("lime_test")
  /\ RampOff
  /\ rf \in [pc : {"entry"}, rf_sr : RfRates, rf_hz : RfTargets,
             calls : {<<>>}, ret : {"none"}]
  /\ av = AvOff
  /\ sb = SbOff
  /\ PartsOff

\* double nco = LO_HZ - rf_hz; the range test returns -1 or falls through.
SetRfRange ==
  /\ rf.pc = "entry"
  /\ LET nco == LO_HZ - rf.rf_hz
     IN  IF OutOfNcoRange(nco, rf.rf_sr)
           THEN rf' = [rf EXCEPT !.pc = "ret", !.ret = -1]
           ELSE rf' = [rf EXCEPT !.pc = "freq"]
  /\ UNCHANGED <<lifeVars, rampVars, av, sb, partVars>>

\* freqs[0] = fabs(nco); if (LMS_SetNCOFrequency(...)) return -1;
SetRfNCOFrequency(ok) ==
  /\ rf.pc = "freq"
  /\ LET nco  == LO_HZ - rf.rf_hz
         call == [call |-> "LMS_SetNCOFrequency", freq |-> fabs(nco)]
     IN  rf' = [rf EXCEPT !.calls = Append(@, call),
                          !.pc = IF ok THEN "index" ELSE "ret",
                          !.ret = IF ok THEN "none" ELSE -1]
  /\ UNCHANGED <<lifeVars, rampVars, av, sb, partVars>>

\* if (LMS_SetNCOIndex(dev, true, CH, 0, downconvert)) return -1; return 0;
SetRfNCOIndex(ok) ==
  /\ rf.pc = "index"
  /\ LET nco  == LO_HZ - rf.rf_hz
         call == [call |-> "LMS_SetNCOIndex", down |-> downconvert(nco)]
     IN  rf' = [rf EXCEPT !.calls = Append(@, call),
                          !.pc = "ret",
                          !.ret = IF ok THEN 0 ELSE -1]
  /\ UNCHANGED <<lifeVars, rampVars, av, sb, partVars>>

RfNext ==
  \/ SetRfRange
  \/ \E ok \in BOOLEAN : SetRfNCOFrequency(ok)
  \/ \E ok \in BOOLEAN : SetRfNCOIndex(ok)

(***************************************************************************)
(* From the command line to the first push: what tx_carrier, the SSB-tone  *)
(* program (ssb_tone) and the rotating-tone program (tx_ssb2_rot) do with  *)
(* the gain and the baseband frequency they were given.                    *)
(***************************************************************************)
\* HOST_SR_HZ, the default of both tone programs.
HostSrHz == 5000000

\* --tx-gain values, as strtol returns them.
TxGainArgs == -3 .. 76

\* --tone values of ssb_tone (Hz).
ToneArgs == {-1000000, 0, 1, 1000000, 2499999, 2500000, 3000000}

\* --bb-hz values of tx_ssb2_rot (Hz); -1 is the default "not given".
BbHzArgs == {-1, 0, 1000000, 2499999, 2500000, 3000000}

\* --bb-ang values of tx_ssb2_rot (rad/s); 2048 is the default.
BbAngArgs == {2048, 0, -2048}

\* (BB_FREQ_HZ > 0) ? BB_FREQ_HZ : BB_ANG_RAD_S / (2.0 * M_PI), to the hertz
\* below.
f_bb(bb_hz, bb_ang) ==
  IF bb_hz > 0 THEN bb_hz ELSE (bb_ang * 1000000) \div 6283185

AvProg == CHOOSE p \in Programs : p.name = av.prog

AvStart(p, g, f) ==
  [prog |-> p, pc |-> "args", gain |-> g, f |-> f, opened |-> FALSE,
   gainArg |-> <<>>, generated |-> FALSE, pushed |-> FALSE,
   exit |-> <<>>]

AvInit ==
  /\ LifeOff("tx_carrier")
  /\ RampOff
  /\ rf = RfOff
  /\ sb = SbOff
  /\ PartsOff
  /\ \/ \E g \in TxGainArgs : av = AvStart("tx_carrier", g, 0)
     \/ \E g \in TxGainArgs, t \in ToneArgs : av = AvStart("ssb_tone", g, t)
     \/ \E h \in BbHzArgs, a \in BbAngArgs :
          av = AvStart("tx_ssb2_rot", 73, f_bb(h, a))

AvExit(c) == [av EXCEPT !.pc = "exit", !.exit = <<c>>]

\* The option loop.  tx_carrier prints a message for a --tx-gain outside
\* 0..73 and continues; ssb_tone returns 1; tx_ssb2_rot does not look.
AvParseArgs ==
  /\ av.pc = "args"
  /\ IF av.prog = "ssb_tone" /\ (av.gain < 0 \/ av.gain > 73)
       THEN av' = AvExit(1)
       ELSE av' = [av EXCEPT !.pc = "validate"]
  /\ UNCHANGED <<lifeVars, rampVars, rf, sb, partVars>>

\* After the option loop.  ssb_tone returns 1 unless the tone is inside
\* (0, host_sr/2); tx_ssb2_rot prints a warning for f_bb <= 0 and continues.
AvValidate ==
  /\ av.pc = "validate"
  /\ IF av.prog = "ssb_tone" /\ (av.f <= 0 \/ 2 * av.f >= HostSrHz)
       THEN av' = AvExit(1)
       ELSE av' = [av EXCEPT !.pc = "devlist"]
  /\ UNCHANGED <<lifeVars, rampVars, rf, sb, partVars>>

\* LMS_GetDeviceList: n < 1 returns 1.
AvGetDeviceList(found) ==
  /\ av.pc = "devlist"
  /\ av' = IF found THEN [av EXCEPT !.pc = "open"] ELSE AvExit(1)
  /\ UNCHANGED <<lifeVars, rampVars, rf, sb, partVars>>

\* LMS_Open: failure returns 1.
AvOpen(ok) ==
  /\ av.pc = "open"
  /\ av' = IF ok THEN [av EXCEPT !.pc = "pregain", !.opened = TRUE]
                 ELSE AvExit(1)
  /\ UNCHANGED <<lifeVars, rampVars, rf, sb, partVars>>

\* The checked calls before the gain setter (LMS_Init ... LMS_SetLPFBW).
AvConfigure(ok) ==
  /\ av.pc = "pregain"
  /\ av' = IF ok THEN [av EXCEPT !.pc = "gain"] ELSE AvExit(AvProg.failExit)
  /\ UNCHANGED <<lifeVars, rampVars, rf, sb, partVars>>

\* CHECK(LMS_SetGaindB(dev, LMS_CH_TX, CH, TX_GAIN_DB)); gainArg is the int
\* handed over (the unsigned parameter receives a negative one plus 2^32).
AvSetGaindB(ok) ==
  /\ av.pc = "gain"
  /\ av' = IF ok
             THEN [av EXCEPT !.pc = "start", !.gainArg = <<av.gain>>]
             ELSE [AvExit(AvProg.failExit) EXCEPT
                     !.gainArg = <<av.gain>>]
  /\ UNCHANGED <<lifeVars, rampVars, rf, sb, partVars>>

\* The remaining checked calls, up to LMS_StartStream.
AvStartStream(ok) ==
  /\ av.pc = "start"
  /\ av' = IF ok THEN [av EXCEPT !.pc = "fill"] ELSE AvExit(AvProg.failExit)
  /\ UNCHANGED <<lifeVars, rampVars, rf, sb, partVars>>

\* The first buffer is generated from the baseband frequency.
AvFill ==
  /\ av.pc = "fill"
  /\ av' = [av EXCEPT !.pc = "send", !.generated = TRUE]
  /\ UNCHANGED <<lifeVars, rampVars, rf, sb, partVars>>

\* The first LMS_SendStream; the model follows the run no further.
AvSend(ok) ==
  /\ av.pc = "send"
  /\ av' = [AvExit(0) EXCEPT !.pushed = TRUE]
  /\ UNCHANGED <<lifeVars, rampVars, rf, sb, partVars>>

AvNext ==
  \/ AvParseArgs
  \/ AvValidate
  \/ \E found \in BOOLEAN : AvGetDeviceList(found)
  \/ \E ok \in BOOLEAN : AvOpen(ok)
  \/ \E ok \in BOOLEAN : AvConfigure(ok)
  \/ \E ok \in BOOLEAN : AvSetGaindB(ok)
  \/ \E ok \in BOOLEAN : AvStartStream(ok)
  \/ AvFill
  \/ \E ok \in BOOLEAN : AvSend(ok)

(***************************************************************************)
(* The sample buffers: tx_carrier's constant buffer and the four waveform  *)
(* modes of lime_test.  Amplitudes are hundredths of full scale; products  *)
(* are computed exactly where the code rounds a float or double once more  *)
(* (the difference is below 0.01 of a sample step and no value here lies   *)
(* that close to a rounding boundary).                                     *)
(***************************************************************************)
\* Samples of a buffer the model fills (BUF_SAMPLES is 8192).
BufLen == 3

\* Buffers handed to LMS_SendStream in one run.
MaxBuffers == 2

\* TONE_SCALE of tx_carrier, in hundredths.
TONE_SCALE == 70

\* The amplitude of lime_test's sweep mode, in hundredths: lrint(0.70 * ...).
SweepAmp == 70

\* tx_carrier's defaults LO_HZ, NCO_FREQ_HZ (NCO_DOWNCONVERT is true).
CarrierLoHz == 30000000

CarrierNcoHz == 15000000

\* --amp values (hundredths), as atof returns them: parse_args has no range
\* check.
AmpArgs == {-50, 1, 30, 50, 70, 99, 100, 150, 200}

\* sin at the eight phases k * pi/4, in millionths.
sin8 == <<0, 707107, 1000000, 707107, 0, -707107, -1000000, -707107>>

\* A 32-bit word as <<high half, low half>>.
Bit(w, i) ==
  IF i < 16 THEN (w[2] \div (2 ^ i)) % 2 ELSE (w[1] \div (2 ^ (i - 16))) % 2

RECURSIVE BitsValue(_, _, _)
BitsValue(f, lo, hi) ==
  IF lo > hi THEN 0 ELSE f[lo] + 2 * BitsValue(f, lo + 1, hi)

Word(f) == <<BitsValue(f, 16, 31), BitsValue(f, 0, 15)>>

\* x ^= x << n
XorShl(w, n) ==
  Word([i \in 0..31 |->
          (Bit(w, i) + (IF i >= n THEN Bit(w, i - n) ELSE 0)) % 2])

\* x ^= x >> n
XorShr(w, n) ==
  Word([i \in 0..31 |->
          (Bit(w, i) + (IF i + n <= 31 THEN Bit(w, i + n) ELSE 0)) % 2])

\* x ^= x<<13; x ^= x>>17; x ^= x<<5;
xorshift32(w) == XorShl(XorShr(XorShl(w, 13), 17), 5)

\* The static generator states of fill_noise_iq: the two seeds, and two
\* later states of the sequence whose successors have the low halves 0x0000
\* and 0xFFFF (xorshift32 runs through every non-zero word).
NoiseStates ==
  {<<4660, 22136>>, <<34661, 17185>>, <<60515, 16912>>, <<5585, 24824>>}

\* a * b = q * c + r with 0 <= r < c, for a, b >= 0 and c > 0, by doubling
\* (the product itself is never formed).
RECURSIVE MulDivMod(_, _, _)
MulDivMod(a, b, c) ==
  IF b = 0 THEN <<0, 0>>
  ELSE LET h   == MulDivMod(a, b \div 2, c)
           add == IF b % 2 = 1 THEN a ELSE 0
           r   == 2 * h[2] + (add % c)
       IN  <<2 * h[1] + (add \div c) + (r \div c), r % c>>

\* (int16_t) of an integer value: out of range it wraps (two's complement).
ToInt16(v) == ((v + 32768) % 65536) - 32768

\* (int16_t)(double): a * b / c truncated toward zero.
trunc(a, b, c) ==
  LET m == MulDivMod(fabs(a), b, c)
  IN  IF a < 0 THEN -m[1] ELSE m[1]

\* lrint / lrintf of a * b / c: to nearest, halves to even.
lrint(a, b, c) ==
  LET m   == MulDivMod(fabs(a), b, c)
      up  == 2 * m[2] > c \/ (2 * m[2] = c /\ m[1] % 2 = 1)
      mag == IF up THEN m[1] + 1 ELSE m[1]
  IN  IF a < 0 THEN -mag ELSE mag

\* A sample as stored, with the values before the (int16_t) casts.
Sample(rawI, rawQ) ==
  [I |-> ToInt16(rawI), Q |-> ToInt16(rawQ), rawI |-> rawI, rawQ |-> rawQ]

\* const int16_t I = (int16_t)lrint(0.70 * 32767.0); Q = 0 (sweep mode).
SweepSample(amp) == Sample(lrint(SweepAmp, 32767, 100), 0)

\* const int16_t I = (int16_t)(TONE_SCALE * 32767.0); Q = 0 (tx_carrier).
CarrierSample == Sample(trunc(TONE_SCALE, 32767, 100), 0)

\* const int16_t I = (int16_t)lrint(C.amp_fs * 32767.0); Q = 0 (tone mode).
ToneSample(amp) == Sample(lrint(amp, 32767, 100), 0)

\* fill_two_tone_iq, sample n, with w1 = pi/4 and w2 = -w1:
\* s = a*sin(ph1) + a*sin(ph2), a = amp * 0.5; I = lrintf(s * 32767.0f).
TwoToneSample(amp, n) ==
  LET s1 == sin8[(n % 8) + 1]
      s2 == sin8[((-n) % 8) + 1]
  IN  Sample(lrint(amp * (s1 + s2), 32767, 200000000), 0)

\* fill_noise_iq with generator states w1, w2 (already advanced):
\* fi = ((int32_t)(s1 & 0xFFFF) - 32768) / 32768.0f;
\* I = lrintf((float)amp * fi * 32767.0f), likewise Q.
NoiseSample(amp, w1, w2) ==
  Sample(lrint(amp * (w1[2] - 32768), 32767, 3276800),
         lrint(amp * (w2[2] - 32768), 32767, 3276800))

\* The rotating tone of tx_ssb2 at phase ph * pi/4 (step = pi/4):
\* I = (int16_t)lrint(AMP * ui), Q = (int16_t)lrint(AMP * ur), with
\* AMP = (int16_t)(0.70 * 32767.0) = 22936, ui = sin, ur = cos.
RotSample(ph) ==
  Sample(lrint(sin8[(ph % 8) + 1], 22936, 1000000),
         lrint(sin8[((ph + 2) % 8) + 1], 22936, 1000000))

\* ssb_tone at phase ph * pi/4, upper sideband: I = (int16_t)(scale * c),
\* Q = (int16_t)(scale * s_), scale = AMP_SCALE * 32767.0 = 0.65 * 32767.
SsbSample(ph) ==
  Sample(trunc(65 * sin8[((ph + 2) % 8) + 1], 32767, 100000000),
         trunc(65 * sin8[(ph % 8) + 1], 32767, 100000000))

\* ph counts the increments applied to the phase state that lives across
\* buffers (rotating tone, SSB tone); firstPh and lastPh are the phases, in
\* increments, of the first and the latest sample of the buffer being
\* filled, prevLast that of the last sample of the buffer before it.
SbStart(kind, amp, w1, w2) ==
  [kind |-> kind, pc |-> "fill", amp |-> amp, buf |-> <<>>, nbuf |-> 0,
   s1 |-> w1, s2 |-> w2, ph |-> 0, firstPh |-> <<>>, lastPh |-> <<>>,
   prevLast |-> <<>>,
   rf |-> rf_hz(CarrierLoHz, CarrierNcoHz, TRUE)]

SbInit ==
  /\ LifeOff("lime_test")
  /\ RampOff
  /\ rf = RfOff
  /\ av = AvOff
  /\ PartsOff
  /\ \/ sb = SbStart("tx_carrier", TONE_SCALE, <<0, 0>>, <<0, 0>>)
     \/ \E kind \in {"tone", "twotone", "sweep"}, amp \in AmpArgs :
          sb = SbStart(kind, amp, <<0, 0>>, <<0, 0>>)
     \/ sb = SbStart("rot", TONE_SCALE, <<0, 0>>, <<0, 0>>)
     \/ sb = SbStart("ssb", 65, <<0, 0>>, <<0, 0>>)
     \/ \E amp \in AmpArgs, w1, w2 \in NoiseStates :
          sb = SbStart("noise", amp, w1, w2)

\* One pass of the loop that fills the buffer.  fill_two_tone_iq starts
\* its phases at 0 in every call (double ph1=0.0, ph2=0.0 are locals); the
\* rotating tone and the SSB tone keep theirs in variables of main.
SbFillSample ==
  /\ sb.pc = "fill"
  /\ Len(sb.buf) < BufLen
  /\ LET n    == Len(sb.buf)
         n1   == xorshift32(sb.s1)
         n2   == xorshift32(sb.s2)
         kept == sb.kind \in {"rot", "ssb"}
         used == IF kept THEN sb.ph ELSE n
         smp  == CASE sb.kind = "tx_carrier" -> CarrierSample
                   [] sb.kind = "tone"       -> ToneSample(sb.amp)
                   [] sb.kind = "sweep"      -> SweepSample(sb.amp)
                   [] sb.kind = "twotone"    -> TwoToneSample(sb.amp, n)
                   [] sb.kind = "noise"      -> NoiseSample(sb.amp, n1, n2)
                   [] sb.kind = "rot"        -> RotSample(sb.ph)
                   [] sb.kind = "ssb"        -> SsbSample(sb.ph)
     IN  sb' = [sb EXCEPT
                  !.buf = Append(@, smp),
                  !.s1 = IF sb.kind = "noise" THEN n1 ELSE @,
                  !.s2 = IF sb.kind = "noise" THEN n2 ELSE @,
                  !.ph = IF kept THEN @ + 1 ELSE @,
                  !.firstPh = IF n = 0 THEN <<used>> ELSE @,
                  !.lastPh = <<used>>]
  /\ UNCHANGED <<lifeVars, rampVars, rf, av, partVars>>

\* The buffer is complete.
SbFilled ==
  /\ sb.pc = "fill"
  /\ Len(sb.buf) = BufLen
  /\ sb' = [sb EXCEPT !.pc = "ready"]
  /\ UNCHANGED <<lifeVars, rampVars, rf, av, partVars>>

\* LMS_SendStream of the buffer.  Two-tone, noise, the rotating tone and
\* the SSB tone fill it again before the next send; the other modes send
\* the same buffer again.
SbSend(ok) ==
  /\ sb.pc = "ready"
  /\ IF ok /\ sb.nbuf + 1 < MaxBuffers
       THEN IF sb.kind \in {"twotone", "noise", "rot", "ssb"}
              THEN sb' = [sb EXCEPT !.pc = "fill", !.buf = <<>>,
                                    !.nbuf = @ + 1, !.firstPh = <<>>,
                                    !.prevLast = sb.lastPh]
              ELSE sb' = [sb EXCEPT !.nbuf = @ + 1]
       ELSE sb' = [sb EXCEPT !.pc = "done", !.nbuf = @ + 1]
  /\ UNCHANGED <<lifeVars, rampVars, rf, av, partVars>>

SbNext ==
  \/ SbFillSample
  \/ SbFilled
  \/ \E ok \in BOOLEAN : SbSend(ok)


(***************************************************************************)
(* The rotator of the rotating-tone generator (tx_ssb2, third program).    *)
(* u = ur + j*ui starts at 1 and is multiplied by w = cos(step) +          *)
(* j*sin(step) after every sample.  In real numbers |w| = 1 and the        *)
(* product keeps |u|; in doubles every product changes |u|^2 by a rounding *)
(* error of a few 2^-53.  The model keeps r2 = ur*ur + ui*ui in millionths *)
(* and lets every product change it by d millionths, d in -1..1 fixed for  *)
(* the run, which is far more than any rounding error of a double and      *)
(* covers the steady drift in either direction.  i is the index in the     *)
(* buffer, n counts the generated samples of the whole run modulo 1024.    *)
(***************************************************************************)
BUF_SAMPLES == 8192

\* if ((i & 1023) == 1023), every 1000 samples of the buffer instead.
RenormDueEvery1000(i) == i % 1000 = 999

\* if ((i & 1023) == 1023)
RenormDue(i) == i % 1024 = 1023

\* ur *= k; ui *= k with k = 1: the renormalization left out.
RenormR2Skipped(r2) == r2

\* r2 = ur*ur + ui*ui; k = 1.5 - 0.5*r2; ur *= k; ui *= k: the new
\* ur*ur + ui*ui is r2 * k * k, here in millionths and rounded down twice
\* (2k = 3 - r2, so k*k = (3 - r2)^2 / 4).
RenormR2(r2) ==
  LET twoK == 3000000 - r2
      kk   == MulDivMod(twoK, twoK, 4000000)[1]
  IN  MulDivMod(r2, kk, 1000000)[1]

RotInit ==
  /\ LifeOff("tx_ssb2_rot")
  /\ RampOff
  /\ rf = RfOff
  /\ av = AvOff
  /\ sb = SbOff
  /\ sw = [pc |-> "off"]
  /\ ff = [pc |-> "off"]
  /\ wv = [pc |-> "off"]
  /\ rg = [pc |-> "off"]
  /\ \E d \in {-1, 0, 1} :
       rot = [pc |-> "fill", i |-> 0, n |-> 0, any |-> FALSE, d |-> d,
              r2 |-> 1000000, renorm |-> FALSE, nbuf |-> 0]

\* One pass of for (i = 0; i < BUF_SAMPLES; i++): store the sample, rotate
\* u, renormalize when due.
RotFill ==
  /\ rot.pc = "fill"
  /\ rot.i < BUF_SAMPLES
  /\ LET moved == rot.r2 + rot.d
         due   == RenormDue(rot.i)
     IN  rot' = [rot EXCEPT !.i = @ + 1, !.n = (@ + 1) % 1024,
                            !.any = TRUE, !.renorm = due,
                            !.r2 = IF due THEN RenormR2(moved) ELSE moved]
  /\ UNCHANGED <<lifeVars, rampVars, rf, av, sb, sw, ff, wv, rg>>

\* LMS_SendStream of the full buffer; a failure ends the loop.
RotSend(ok) ==
  /\ rot.pc = "fill"
  /\ rot.i = BUF_SAMPLES
  /\ IF ok
       THEN rot' = [rot EXCEPT !.i = 0,
                      !.nbuf = IF @ < MaxBuffers THEN @ + 1 ELSE @]
       ELSE rot' = [rot EXCEPT !.pc = "done"]
  /\ UNCHANGED <<lifeVars, rampVars, rf, av, sb, sw, ff, wv, rg>>

RotNext ==
  \/ RotFill
  \/ \E ok \in BOOLEAN : RotSend(ok)

(***************************************************************************)
(* The sweep mode of lime_test: for (rf = start; g_run; rf += step) with   *)
(* the dwell loop inside.  Frequencies are whole hertz, for which the      *)
(* double additions are exact.  planned lists the frequencies handed to    *)
(* set_rf, np counts the pushes of the current dwell.  host_sr and rf_sr   *)
(* are what the one unchecked LMS_GetSampleRate call left in them: the     *)
(* rates of the device (rf_sr = OVERSAMPLE * host_sr), or 0 and 0 when the *)
(* call failed.                                                            *)
(***************************************************************************)
MaxPlans == 4

MaxDwellPushes == 3

\* if (rf > C.sweep_stop_hz) rf = C.sweep_start_hz; without the test.
SweepWrapNever(x, c) == x

\* if (rf > C.sweep_stop_hz) rf = C.sweep_start_hz;
SweepWrap(x, c) == IF x > c.stop THEN c.start ELSE x

\* (int)((1000.0 * BUF_SAMPLES) / host_sr).  With host_sr = 0 the quotient
\* is infinite and the conversion undefined: INT_MIN on x86, INT_MAX where
\* the conversion saturates.
IntMs(host_sr) ==
  IF host_sr = 0 THEN {-2147483647 - 1, 2147483647}
  ELSE {(1000 * BUF_SAMPLES) \div host_sr}

SwInit ==
  /\ LifeOff("lime_test")
  /\ RampOff
  /\ rf = RfOff
  /\ av = AvOff
  /\ sb = SbOff
  /\ rot = [pc |-> "off"]
  /\ ff = [pc |-> "off"]
  /\ wv = [pc |-> "off"]
  /\ rg = [pc |-> "off"]
  /\ \E c \in {[start |-> 25000000, stop |-> 35000000, step |-> 5000000],
               [start |-> 25000000, stop |-> 34000000, step |-> 4000000],
               [start |-> 30000000, stop |-> 30000000, step |-> 100000],
               [start |-> 10000000, stop |-> 30000000, step |-> 10000000],
               [start |-> 35000000, stop |-> 25000000, step |-> 5000000]},
        dwell \in {0, 2, 3},
        host_sr \in {5000000, 2000000, 10000000, 0} :
       sw = [pc |-> "for", c |-> c, dwell |-> dwell, host_sr |-> host_sr,
             rf_sr |-> 8 * host_sr, g_run |-> TRUE, x |-> c.start,
             t |-> 0, np |-> 0, planned |-> <<>>,
             buf |-> SweepSample(SweepAmp), pushed |-> {}]

\* The head of the for loop and the top of its body: the loop test, the
\* wrap to the start, set_rf (which refuses a frequency out of the NCO
\* range and otherwise returns what the device calls return), int t = 0.
SwStep(ok) ==
  /\ sw.pc = "for"
  /\ IF ~sw.g_run
       THEN ok /\ sw' = [sw EXCEPT !.pc = "done"]
       ELSE LET x == SweepWrap(sw.x, sw.c)
                accepted == ok /\ ~OutOfNcoRange(LO_HZ - x, sw.rf_sr)
            IN  /\ Len(sw.planned) < MaxPlans
                /\ sw' = [sw EXCEPT !.x = x,
                                    !.planned = Append(@, x),
                                    !.t = 0, !.np = 0,
                                    !.pc = IF accepted THEN "dwell"
                                           ELSE "done"]
  /\ UNCHANGED <<lifeVars, rampVars, rf, av, sb, rot, ff, wv, rg>>

\* The dwell loop: while (g_run && t < C.dwell_ms) { send; t += (int)ms; }
\* and, when its test fails, rf += C.sweep_step_hz of the for loop.  A
\* failed send clears g_run and leaves the loop.
SwDwell(ok) ==
  /\ sw.pc = "dwell"
  /\ \E ms \in IntMs(sw.host_sr) :
       IF sw.g_run /\ sw.t < sw.dwell
           THEN /\ sw.np < MaxDwellPushes
                /\ IF ok
                     THEN sw' = [sw EXCEPT !.t = @ + ms, !.np = @ + 1,
                                           !.pushed = @ \cup {sw.buf}]
                     ELSE sw' = [sw EXCEPT !.g_run = FALSE, !.np = @ + 1,
                                           !.pushed = @ \cup {sw.buf},
                                           !.x = @ + sw.c.step, !.pc = "for"]
           ELSE /\ ok
                /\ sw' = [sw EXCEPT !.x = @ + sw.c.step, !.pc = "for"]
  /\ UNCHANGED <<lifeVars, rampVars, rf, av, sb, rot, ff, wv, rg>>

\* SIGINT: the handler clears g_run.
SwSigint ==
  /\ sw.pc \in {"for", "dwell"}
  /\ sw.g_run
  /\ sw' = [sw EXCEPT !.g_run = FALSE]
  /\ UNCHANGED <<lifeVars, rampVars, rf, av, sb, rot, ff, wv, rg>>

SwNext ==
  \/ \E ok \in BOOLEAN : SwStep(ok)
  \/ \E ok \in BOOLEAN : SwDwell(ok)
  \/ SwSigint

(***************************************************************************)
(* The streaming loop of tx_pipe_I16bit.  The bytes the writer puts into   *)
(* the FIFO are numbered 1, 2, ... in arrival order; a frame is four       *)
(* bytes (I low, I high, Q low, Q high).  next is the number of the next   *)
(* byte read() will return, pushed the frames handed to LMS_SendStream.    *)
(* The buffer holds BufLen frames; SCALE is 1.0, so bytes pass unchanged.  *)
(***************************************************************************)
MaxReads == 3

FfInit ==
  /\ LifeOff("tx_pipe_I16bit")
  /\ RampOff
  /\ rf = RfOff
  /\ av = AvOff
  /\ sb = SbOff
  /\ rot = [pc |-> "off"]
  /\ sw = [pc |-> "off"]
  /\ wv = [pc |-> "off"]
  /\ rg = [pc |-> "off"]
  /\ ff = [pc |-> "loop", next |-> 1, pushed |-> <<>>, reads |-> 0,
           keep_running |-> TRUE]

\* One pass of while (keep_running): read(fifo_fd, buf, bytes_per_chunk)
\* returns got (-1: interrupted, errno EINTR; -2: another error; 0: end of
\* file); the got bytes lie at the start of buf; got / 4 frames are sent
\* from the start of buf with result ok; the next pass reads into the
\* start of buf again.
FfRead(got, ok) ==
  /\ ff.pc = "loop"
  /\ ff.keep_running
  /\ ff.reads < MaxReads
  /\ LET buf    == [i \in 1..got |-> ff.next + i - 1]
         frames == got \div 4
         sent   == [f \in 1..frames |->
                      <<buf[4 * f - 3], buf[4 * f - 2], buf[4 * f - 1],
                        buf[4 * f]>>]
     IN  IF got = -1
           THEN ok /\ ff' = [ff EXCEPT !.reads = @ + 1]
         ELSE IF got <= 0
           THEN ok /\ ff' = [ff EXCEPT !.reads = @ + 1, !.pc = "done"]
         ELSE IF frames = 0
           THEN ok /\ ff' = [ff EXCEPT !.reads = @ + 1, !.next = @ + got]
         ELSE ff' = [ff EXCEPT !.reads = @ + 1, !.next = @ + got,
                               !.pushed = @ \o sent,
                               !.pc = IF ok THEN "loop" ELSE "done"]
  /\ UNCHANGED <<lifeVars, rampVars, rf, av, sb, rot, sw, wv, rg>>

\* SIGINT clears keep_running; the loop test then ends the loop.
FfStop ==
  /\ ff.pc = "loop"
  /\ IF ff.keep_running
       THEN ff' = [ff EXCEPT !.keep_running = FALSE]
       ELSE ff' = [ff EXCEPT !.pc = "done"]
  /\ UNCHANGED <<lifeVars, rampVars, rf, av, sb, rot, sw, wv, rg>>

FfNext ==
  \/ \E got \in -2..(4 * BufLen), ok \in BOOLEAN : FfRead(got, ok)
  \/ FfStop

(***************************************************************************)
(* The streaming loop of the WAV players (wav_tx, wav_tx_txtsp).  The file *)
(* is flen bytes long; parse_wav found the data chunk at data_offset with  *)
(* data_bytes bytes and left the file position there; whatever follows the *)
(* data chunk (a LIST chunk, say) makes the file longer than data_offset + *)
(* data_bytes.  pos is the file position, pushed the file offsets of the   *)
(* bytes handed to LMS_SendStream.  The buffer holds BufLen frames of four *)
(* bytes; SCALE is 1.0.                                                    *)
(***************************************************************************)
MaxWavPasses == 4

WvInit ==
  /\ LifeOff("wav_tx")
  /\ RampOff
  /\ rf = RfOff
  /\ av = AvOff
  /\ sb = SbOff
  /\ rot = [pc |-> "off"]
  /\ sw = [pc |-> "off"]
  /\ ff = [pc |-> "off"]
  /\ rg = [pc |-> "off"]
  /\ \E LOOP \in BOOLEAN, data_bytes \in {0, 8, 12, 16, 22},
        after \in {0, 6} :
       wv = [pc |-> "loop", LOOP |-> LOOP, data_offset |-> 4,
             data_bytes |-> data_bytes, flen |-> 4 + data_bytes + after,
             pos |-> 4, bytes_left |-> data_bytes, pushed |-> {},
             tail |-> FALSE, rewinds |-> 0, passes |-> 0]

\* One pass of while (keep_running), run being the flag as the loop test
\* reads it and ok the result of the data send.  fread returns what the
\* file still holds, at most want bytes.
WvPass(run, ok) ==
  /\ wv.pc = "loop"
  /\ wv.passes < MaxWavPasses
  /\ LET chunk  == 4 * BufLen
         want   == IF ~wv.LOOP /\ wv.bytes_left < chunk
                     THEN wv.bytes_left ELSE chunk
         rest   == wv.flen - wv.pos
         got    == IF rest < want THEN rest ELSE want
         frames == got \div 4
         sent   == wv.pos..(wv.pos + 4 * frames - 1)
     IN  IF ~run \/ (~wv.LOOP /\ wv.bytes_left = 0)
           THEN ok /\ wv' = [wv EXCEPT !.pc = "done", !.passes = @ + 1]
         ELSE IF frames > 0 /\ ~ok
           THEN wv' = [wv EXCEPT !.pc = "done", !.passes = @ + 1,
                                 !.pos = @ + got, !.pushed = @ \cup sent]
         ELSE /\ frames = 0 => ok
              /\ IF ~wv.LOOP
                   THEN wv' = [wv EXCEPT
                                 !.passes = @ + 1,
                                 !.pos = @ + got,
                                 !.pushed = @ \cup sent,
                                 !.tail = got < want,
                                 !.pc = IF got < want THEN "done" ELSE "loop",
                                 !.bytes_left = IF got < want THEN @
                                                ELSE @ - got]
                   ELSE wv' = [wv EXCEPT
                                 !.passes = @ + 1,
                                 !.pos = IF got < want THEN wv.data_offset
                                         ELSE @ + got,
                                 !.pushed = @ \cup sent,
                                 !.rewinds = IF got < want /\ @ < 2
                                               THEN @ + 1 ELSE @,
                                 !.bytes_left = IF got < want
                                                  THEN wv.data_bytes ELSE @]
  /\ UNCHANGED <<lifeVars, rampVars, rf, av, sb, rot, sw, ff, rg>>

WvNext == \E run, ok \in BOOLEAN : WvPass(run, ok)

(***************************************************************************)
(* apply_manual_txtsp of tx_pipe_I16bit on the registers it touches.  A    *)
(* register is its 16-bit value; masks and shifts are written with \div    *)
(* and %.  old is the content before the call.  A failed read leaves the   *)
(* caller's variable at the 0 it was initialized with; a failed write      *)
(* leaves the register as it was.                                          *)
(***************************************************************************)
RgInit ==
  /\ LifeOff("tx_pipe_I16bit")
  /\ RampOff
  /\ rf = RfOff
  /\ av = AvOff
  /\ sb = SbOff
  /\ rot = [pc |-> "off"]
  /\ sw = [pc |-> "off"]
  /\ ff = [pc |-> "off"]
  /\ wv = [pc |-> "off"]
  /\ \E have_gi, have_gq, have_phase, have_dci, have_dcq \in BOOLEAN,
        gi \in {-5, 5000}, dci \in {-200, 100},
        r20 \in {0, 65534}, r202 \in {291, 61731}, r208 \in {0, 65535} :
       LET regs == [r0020 |-> r20, r0201 |-> 1024, r0202 |-> r202,
                    r0203 |-> 100, r0204 |-> 23100, r0208 |-> r208]
       IN  rg = [pc |-> "call", old |-> regs, regs |-> regs, rc |-> 0,
                 have_gi |-> have_gi, gi |-> gi,
                 have_gq |-> have_gq, gq |-> 2047,
                 have_phase |-> have_phase, phase |-> -3000,
                 have_dci |-> have_dci, dci |-> dci,
                 have_dcq |-> have_dcq, dcq |-> -1]

\* apply_manual_txtsp(dev, CH, ...) with CH = 0.  rdMac, rdDc and rdByp are
\* the results of the three LMS_ReadLMSReg calls (TRUE: the call
\* succeeded); wr is the result of the LMS_WriteLMSReg calls, which all
\* succeed or all fail.  The function returns early only when
\* set_mac_channel fails; every other result is or-ed into rc.
apply_manual_txtsp(rdMac, rdDc, rdByp, wr) ==
  /\ rg.pc = "call"
  /\ LET r   == rg.old
         mac == (r.r0020 - (r.r0020 % 4)) + 1
         gi  == clampi(rg.gi, 0, 2047) % 2048
         gq  == clampi(rg.gq, 0, 2047) % 2048
         iq12 == clampi(rg.phase, -2047, 2047) % 4096
         dc0 == IF rdDc THEN r.r0204 ELSE 0
         dc1 == IF rg.have_dci
                  THEN (dc0 % 256) + 256 * (clampi(rg.dci, -128, 127) % 256)
                  ELSE dc0
         dc2 == IF rg.have_dcq
                  THEN (dc1 - (dc1 % 256)) + (clampi(rg.dcq, -128, 127) % 256)
                  ELSE dc1
         byp0 == IF rdByp THEN r.r0208 ELSE 0
         byp == byp0 - (byp0 % 4) - 8 * ((byp0 \div 8) % 2)
         failed == (~rdDc /\ (rg.have_dci \/ rg.have_dcq)) \/ ~rdByp
     IN  IF ~rdMac
           THEN wr /\ rdDc /\ rdByp
                /\ rg' = [rg EXCEPT !.pc = "done", !.rc = -1]
         ELSE IF ~wr
           THEN rdDc /\ rdByp
                /\ rg' = [rg EXCEPT !.pc = "done", !.rc = -1]
         ELSE rg' = [rg EXCEPT
                 !.pc = "done",
                 !.rc = IF failed THEN -1 ELSE 0,
                 !.regs = [r0020 |-> mac,
                           r0201 |-> IF rg.have_gq THEN gq ELSE r.r0201,
                           r0202 |-> IF rg.have_gi THEN gi ELSE r.r0202,
                           r0203 |-> IF rg.have_phase THEN iq12
                                     ELSE r.r0203,
                           r0204 |-> IF rg.have_dci \/ rg.have_dcq
                                       THEN dc2 ELSE r.r0204,
                           r0208 |-> byp]]
  /\ UNCHANGED <<lifeVars, rampVars, rf, av, sb, rot, sw, ff, wv>>

RgNext == \E rdMac, rdDc, rdByp, wr \in BOOLEAN :
            apply_manual_txtsp(rdMac, rdDc, rdByp, wr)
Init == LifeInit /\ RampOff /\ CalcOff

Next == LifeNext

Spec == Init /\ [][Next]_vars

InitRamp == LifeStreaming /\ RampInit /\ CalcOff

SpecRamp == InitRamp /\ [][RampNext]_vars

SpecRf == RfInit /\ [][RfNext]_vars

SpecArgs == AvInit /\ [][AvNext]_vars

SpecSamples == SbInit /\ [][SbNext]_vars


SpecRot == RotInit /\ [][RotNext]_vars

SpecSweep == SwInit /\ [][SwNext]_vars

SpecFifo == FfInit /\ [][FfNext]_vars

SpecWav == WvInit /\ [][WvNext]_vars

SpecTxtsp == RgInit /\ [][RgNext]_vars

(***************************************************************************)
(* Properties of a run (checked under Spec).                               *)
(***************************************************************************)
\* n data pushes in a row.
PushRun(n) == [i \in 1..n |-> "push"]

\* C1: in the programs that share tx_carrier's cleanup, when the loop sees
\* the flag cleared after N >= 0 successful data pushes, the run ends having
\* pushed exactly one zero buffer after the last data buffer, then stopped
\* and destroyed the stream, disabled the channel and closed the device, in
\* that order, and the exit code is 0.
C1_CancelMutesThenTearsDown ==
  (pc = "done" /\ SharesCarrierCleanup(Prog) /\ cause = "sigint")
    => /\ \A i \in 1..Len(trace) : trace[i].ok \/ trace[i].op # "push"
       /\ Ops(trace) = PushRun(pushes)
                         \o <<"mute", "stop", "destroy", "disable", "close">>
       /\ exitCode = <<0>>

\* C1 witness: tx_carrier cancelled after a successful data push has exited.
C1_Witness ==
  /\ program = "tx_carrier"
  /\ pc = "done"
  /\ cause = "sigint"
  /\ pushes >= 1
  /\ Count(trace, "mute") = 1

\* C2: in every program a failed data push is fatal to the loop: no data
\* buffer is pushed after a push that failed.
C2_FailedPushIsFatal ==
  \A i, j \in 1..Len(trace) :
    (i < j /\ trace[i].op = "push" /\ ~trace[i].ok) => trace[j].op # "push"

C4_ExitCodes ==
  pc = "done"
    => /\ cause \in {"args", "nodev", "open", "setup"} => exitCode = <<1>>
       /\ exitCode = <<0>> => cause = "sigint"

\* C5: the stream is destroyed exactly once if LMS_SetupStream succeeded,
\* and otherwise cleanup performs no stream operation at all.
C5_StreamClosedOnceIfAcquired ==
  pc = "done"
    => IF handle = "set"
         THEN Count(trace, "destroy") = 1
         ELSE \A i \in 1..Len(trace) : trace[i].op \notin StreamOps

\* C6: in every program, once the device is open, every way the run ends
\* has closed the device and, if a stream was set up, destroyed it.
C6_EveryEndingCleansUp ==
  (pc \in {"done", "killed"} /\ dev)
    => /\ Count(trace, "close") = 1
       /\ handle = "set" => Count(trace, "destroy") = 1

\* C7: in every program a cancelled run sends one zero buffer, then stops
\* and destroys the stream, then disables the TX channel.
C7_CancelMutesInEveryProgram ==
  (pc = "done" /\ cause = "sigint")
    => SelectSeq(Teardown(trace), LAMBDA o : o # "close")
         = <<"mute", "stop", "destroy", "disable">>

\* C8: cancellation is cooperative: the handler clears the flag and changes
\* nothing else, the loop polls the flag once per iteration, and so at most
\* one data buffer (the one in flight) is pushed after the flag was cleared.
C8_AtMostOnePushAfterFlag ==
  /\ [](afterFlag <= 1)
  /\ [][(keep_running /\ ~keep_running' /\ cause' = cause)
          => UNCHANGED <<program, pc, step, handle, dev, started, trace,
                         exitCode, pushes, afterFlag>>]_vars

\* C8 witness: the signal arrived between the poll and the push, the push
\* completed, and the next poll ended the loop.
C8_Witness ==
  /\ Prog.handler
  /\ afterFlag = 1
  /\ cause = "sigint"
  /\ pc = "done"

(***************************************************************************)
(* Properties of the gain ramp (checked under SpecRamp).                   *)
(***************************************************************************)
\* C9: with start 0 dB, target 40 dB, RAMP_MS 2000 and a tick every 20 ms,
\* once a clock reading is at least 2000 ms past t0 and the loop has gone
\* round (no gain-set call having failed, the run not cancelled), the last
\* applied gain is exactly 40 dB and the ramp is disabled; and once the
\* ramp is disabled no further gain-set call is made.
C9_RampEndsAtTarget ==
  /\ []((/\ cfg = DefaultRamp
         /\ rpc = "send"
         /\ keep_running
         /\ setFails = 0
         /\ now - t0 >= cfg.ramp_ms)
          => (/\ g_last_applied = 40
              /\ devGain = 40
              /\ t_next = UINT64_MAX))
  /\ [][(cfg = DefaultRamp /\ t_next = UINT64_MAX)
          => (/\ gainSets' = gainSets
              /\ devGain' = devGain
              /\ t_next' = UINT64_MAX)]_vars

\* C9 witness: the default ramp ran to the end, one gain-set call per dB,
\* and the clock is 2000 ms or more past t0.
C9_Witness ==
  /\ cfg = DefaultRamp
  /\ rpc = "send"
  /\ keep_running
  /\ setFails = 0
  /\ now - t0 >= cfg.ramp_ms
  /\ g_last_applied = 40
  /\ gainSets = 40

\* C10: the gain the device holds moves monotonically from the start value
\* toward the target, never passes the target and never leaves [0, 73] dB,
\* for rising and falling ramps and whatever the gain-set calls return.
C10_GainMonotoneToTarget ==
  /\ [](devGain \in TX_GAIN_MIN_DB..TX_GAIN_MAX_DB)
  /\ [][IF total_delta(cfg) >= 0
          THEN devGain <= devGain' /\ devGain' <= cfg.target
          ELSE devGain >= devGain' /\ devGain' >= cfg.target]_vars

\* C11: a tick issues a gain-set call only if the rounded gain it computed
\* differs from the last applied value: the value a tick's call carries is
\* the rounded gain of that tick and is neither the program's last applied
\* value nor the gain the device holds.
C11_NoRedundantGainSet ==
  [][(rpc = "tick" /\ gainSets' # gainSets)
       => (/\ setArg' = g_int(cfg, k')
           /\ setArg' # g_last_applied
           /\ setArg' # devGain)]_vars

\* C11 witness: ramp 70 -> 73 dB in five ticks of 0.6 dB; the second tick
\* rounds 71.2 to 71, the value applied by the first, and makes no call.
C11_Witness ==
  /\ cfg.start = 70
  /\ rpc = "check"
  /\ k = 2
  /\ gainSets = 1
  /\ setArg = 71
  /\ g_last_applied = 71

\* C12: the ramp is handled once per loop iteration, after the send, and
\* handles every tick that is due: back at the top of the loop, the ramp has
\* finished, or cancellation was requested, or the next tick is later than
\* the clock value last read.
C12_AllDueTicksFire ==
  (rpc = "send" /\ use_ramp(cfg))
    => \/ t_next = UINT64_MAX
       \/ ~keep_running
       \/ t_next > now

\* C12 witness: the loop fell behind and one iteration processed two or
\* more ticks; the ramp is still running and the next tick is in the future.
C12_Witness ==
  /\ rpc = "send"
  /\ use_ramp(cfg)
  /\ iterTicks >= 2
  /\ keep_running
  /\ t_next # UINT64_MAX
  /\ t_next > now

\* C17: in every program that runs LMS_Calibrate, the calibration call is
\* never fatal: whatever it returns, the program goes on with the rest of
\* setup and does not jump to cleanup.
C17_CalibrationNeverFatal ==
  [][(pc = "setup" /\ Prog.setup[step].call = "Calibrate")
       => pc' # "cleanup"]_vars


\* C22: every buffer push (data, tail or mute buffer) happens while the
\* stream is started and before it is stopped or destroyed, and nothing is
\* called on the device after LMS_Close.
C22_PushOnlyWhileStreaming ==
  /\ \A i \in 1..Len(trace) :
       trace[i].op \in {"push", "tail", "mute"}
         => /\ started
            /\ \A j \in 1..(i - 1) :
                 trace[j].op \notin {"stop", "destroy", "close"}
  /\ \A i \in 1..Len(trace) : trace[i].op = "close" => i = Len(trace)

\* C23: while streaming keeps running and no gain-set call fails, the gain
\* applied to the device comes to equal the target gain: once the clock is
\* past the last tick of the ramp (steps * interval after t0) and the loop
\* has gone round, the device gain is the target, for every configuration.
C23_TargetGainReached ==
  (/\ rpc = "send"
   /\ keep_running
   /\ setFails = 0
   /\ now - t0 >= steps(cfg) * cfg.interval)
    => devGain = cfg.target
(***************************************************************************)
(* Properties of set_rf (checked under SpecRf).                            *)
(***************************************************************************)
\* C13: whenever |LO - rfTarget| exceeds the mixer ceiling (RF-side sample
\* rate / 2 minus the 1 Hz guard), set_rf returns the error -1 and has made
\* no call that programs the mixer, neither LMS_SetNCOFrequency nor
\* LMS_SetNCOIndex.
C13_OutOfRangeProgramsNothing ==
  (rf.pc # "entry" /\ 2 * fabs(LO_HZ - rf.rf_hz) > 2 * (rf.rf_sr \div 2 - 1))
    => /\ rf.pc = "ret"
       /\ rf.ret = -1
       /\ rf.calls = <<>>

\* C13 witness: LO 30 MHz, target 5 MHz, RF rate 40 Msps (ceiling 20 MHz):
\* set_rf has returned -1.
C13_Witness ==
  /\ rf.pc = "ret"
  /\ rf.rf_hz = 5000000
  /\ rf.rf_sr = 40000000
  /\ rf.ret = -1
  /\ rf.calls = <<>>

\* C14: for every target within the mixer range the planner programs the
\* magnitude |LO - rfTarget| with downconvert = (LO >= rfTarget), and the
\* effective RF of that setting (LO - mixer if downconvert, else
\* LO + mixer) is the target.
C14_PlanRoundTrip ==
  (rf.pc = "ret" /\ rf.ret = 0)
    => /\ Len(rf.calls) = 2
       /\ rf.calls[1].call = "LMS_SetNCOFrequency"
       /\ rf.calls[1].freq = fabs(LO_HZ - rf.rf_hz)
       /\ rf.calls[2].call = "LMS_SetNCOIndex"
       /\ rf.calls[2].down = (LO_HZ >= rf.rf_hz)
       /\ rf_hz(LO_HZ, rf.calls[1].freq, rf.calls[2].down) = rf.rf_hz

\* C14 witness: a target above the LO was programmed as an upconversion.
C14_Witness ==
  /\ rf.pc = "ret"
  /\ rf.ret = 0
  /\ rf.rf_hz = 45000000
  /\ rf.calls[2].down = FALSE

(***************************************************************************)
(* Properties of the command-line handling (checked under SpecArgs).       *)
(***************************************************************************)
\* C15: in tx_carrier a --tx-gain outside 0..73 dB is a configuration
\* error: once the options are parsed the process has exited non-zero, the
\* device was never opened and the value was never passed to the gain
\* setter.
C15_TxGainRangeEnforced ==
  (/\ av.pc \notin {"off", "args"}
   /\ av.prog = "tx_carrier"
   /\ (av.gain < 0 \/ av.gain > 73))
    => /\ av.pc = "exit"
       /\ av.exit \notin {<<>>, <<0>>}
       /\ ~av.opened
       /\ av.gainArg = <<>>

\* C16: in the rotating-tone program and in the SSB-tone program a baseband
\* frequency that is zero, negative, or at or above host sample rate / 2 is
\* rejected before streaming: once the command line is validated the
\* process has exited non-zero and no buffer is generated or pushed.
C16_ToneRangeEnforced ==
  (/\ av.pc \notin {"off", "args", "validate"}
   /\ av.prog \in {"tx_ssb2_rot", "ssb_tone"}
   /\ (av.f <= 0 \/ 2 * av.f >= HostSrHz))
    => /\ av.pc = "exit"
       /\ av.exit \notin {<<>>, <<0>>}
       /\ ~av.generated
       /\ ~av.pushed

(***************************************************************************)
(* Properties of the sample buffers (checked under SpecSamples).           *)
(***************************************************************************)
\* What the waveform modes of lime_test are.
LimeTestModes == {"tone", "twotone", "sweep", "noise"}

\* Saturation to the signed 16-bit range.
ToInt16Saturating(v) ==
  IF v < -32768 THEN -32768 ELSE IF v > 32767 THEN 32767 ELSE v

\* C18: tx_carrier with its defaults (LO 30 MHz, mixer 15 MHz, downconvert,
\* amplitude 0.70) reports an effective RF of 15.000000 MHz, and every
\* sample of its data buffer is I = 22937 (0.70 x 32767 rounded to nearest),
\* Q = 0.
C18_CarrierBuffer ==
  sb.kind = "tx_carrier"
    => /\ sb.rf = 15000000
       /\ \A i \in 1..Len(sb.buf) : sb.buf[i].I = 22937 /\ sb.buf[i].Q = 0

\* C19: in every waveform mode of lime_test and for every configured
\* amplitude in (0, 1], each sample of every buffer has
\* max(|I|, |Q|) <= ceil(amplitude x 32767).
C19_AmplitudeBound ==
  (sb.kind \in LimeTestModes /\ sb.amp > 0 /\ sb.amp <= 100)
    => \A i \in 1..Len(sb.buf) :
         LET bound == (sb.amp * 32767 + 99) \div 100
         IN  fabs(sb.buf[i].I) <= bound /\ fabs(sb.buf[i].Q) <= bound

\* C20: for every amplitude lime_test accepts, the stored I and Q are the
\* scaled, rounded values saturated to [-32768, 32767]: a value outside the
\* range is stored as the nearest limit and never wraps.
C20_SamplesSaturate ==
  sb.kind \in LimeTestModes
    => \A i \in 1..Len(sb.buf) :
         /\ sb.buf[i].I = ToInt16Saturating(sb.buf[i].rawI)
         /\ sb.buf[i].Q = ToInt16Saturating(sb.buf[i].rawQ)


\* C26: in the rotating-tone, SSB-tone and two-tone generators the phase
\* is continuous across buffers: the phase of the first sample of a buffer
\* is that of the last sample of the buffer before it, advanced by one
\* increment.
C26_PhaseContinuous ==
  (/\ sb.kind \in {"rot", "ssb", "twotone"}
   /\ sb.firstPh # <<>>
   /\ sb.prevLast # <<>>)
    => sb.firstPh = <<sb.prevLast[1] + 1>>

\* C21: in the rotating-tone generator the magnitude of the rotator stays
\* within [0.999, 1.001] however long the run is: |u|^2, in millionths,
\* stays within [998001, 1002001].
C21_RotatorMagnitude ==
  rot.pc # "off" => (rot.r2 >= 998001 /\ rot.r2 <= 1002001)

\* A renormalization in the second buffer that had a drift to correct.
C21_Witness ==
  /\ rot.pc = "fill"
  /\ rot.nbuf >= 1
  /\ rot.renorm
  /\ rot.d # 0
  /\ rot.r2 # 1000000 + 1024 * rot.d

\* C27: the rotator is renormalized after a generated sample exactly when
\* the number of samples generated in the whole run is a multiple of 1024.
C27_RenormEvery1024 ==
  (rot.pc # "off" /\ rot.any) => (rot.renorm <=> rot.n = 0)

\* The renormalization after sample 8192 + 1024, in the second buffer.
C27_Witness ==
  /\ rot.pc = "fill"
  /\ rot.nbuf >= 1
  /\ rot.i = 1024
  /\ rot.n = 0
  /\ rot.renorm

\* C24: in sweep mode with sweep_start <= sweep_stop and a positive step,
\* every frequency handed to set_rf lies in [sweep_start, sweep_stop]; the
\* first is sweep_start, each next one is the previous plus the step, or
\* sweep_start when that would exceed sweep_stop; and every push sends the
\* one buffer filled before the loop.
C24_SweepStaysInRange ==
  (sw.pc # "off" /\ sw.c.start <= sw.c.stop /\ sw.c.step > 0)
    => /\ \A i \in 1..Len(sw.planned) :
            /\ sw.planned[i] >= sw.c.start
            /\ sw.planned[i] <= sw.c.stop
            /\ i = 1 => sw.planned[i] = sw.c.start
            /\ i > 1 => sw.planned[i] =
                 IF sw.planned[i - 1] + sw.c.step > sw.c.stop
                   THEN sw.c.start
                   ELSE sw.planned[i - 1] + sw.c.step
       /\ sw.pushed \subseteq {SweepSample(SweepAmp)}

\* A sweep that went up to sweep_stop and started again, pushing on the way.
C24_Witness ==
  /\ sw.pc = "dwell"
  /\ sw.c.start < sw.c.stop
  /\ Len(sw.planned) = 4
  /\ sw.planned[3] = sw.c.stop
  /\ sw.planned[4] = sw.c.start
  /\ sw.pushed # {}

\* C25: while sends succeed and the run is not cancelled, every dwell ends
\* after finitely many pushes, whatever the dwell time and the host sample
\* rate: every push of a dwell brings t nearer to dwell_ms.
C25_DwellEnds ==
  [][(/\ sw.pc = "dwell"
      /\ sw'.pc = "dwell"
      /\ sw'.g_run
      /\ sw'.np = sw.np + 1)
       => sw'.t > sw.t]_vars

\* C28: whatever sizes read() returns, the frames pushed to the device are
\* the byte stream of the FIFO cut into 4-byte frames in arrival order:
\* frame i consists of bytes 4i-3 .. 4i.
C28_FramesFollowStream ==
  ff.pc # "off"
    => \A i \in 1..Len(ff.pushed) :
         ff.pushed[i] = <<4 * i - 3, 4 * i - 2, 4 * i - 1, 4 * i>>

\* C29: every sample byte the WAV player pushes comes from the data chunk,
\* i.e. from the file offsets data_offset .. data_offset + data_bytes - 1,
\* in one-shot and in --loop mode, whatever follows the data chunk.
C29_OnlyDataChunkPushed ==
  wv.pc # "off"
    => wv.pushed \subseteq
         wv.data_offset..(wv.data_offset + wv.data_bytes - 1)

\* C30: apply_manual_txtsp changes no register bit outside the fields it
\* was asked to set, the bypass flags (bits 0, 1 and 3 of 0x0208) and the
\* MAC bits [1:0] of 0x0020, for every prior content and every outcome of
\* its register reads: a field not asked for keeps its value (DCCORRQ when
\* only DCCORRI is set), and so do the bits above each field.
C30_OnlyRequestedFieldsChange ==
  rg.pc = "done"
    => LET o == rg.old
           n == rg.regs
       IN  /\ n.r0020 \div 4 = o.r0020 \div 4
           /\ IF rg.have_gq THEN n.r0201 \div 2048 = o.r0201 \div 2048
                            ELSE n.r0201 = o.r0201
           /\ IF rg.have_gi THEN n.r0202 \div 2048 = o.r0202 \div 2048
                            ELSE n.r0202 = o.r0202
           /\ IF rg.have_phase THEN n.r0203 \div 4096 = o.r0203 \div 4096
                               ELSE n.r0203 = o.r0203
           /\ ~rg.have_dci => n.r0204 \div 256 = o.r0204 \div 256
           /\ ~rg.have_dcq => n.r0204 % 256 = o.r0204 % 256
           /\ n.r0208 \div 16 = o.r0208 \div 16
           /\ (n.r0208 \div 4) % 2 = (o.r0208 \div 4) % 2
====
